---- MODULE Spec2Model ----
(***************************************************************************)
(* A model of the redox path finder: the frame-stepped physics, the        *)
(* terrain response, the hazard test and the weighted A* search session    *)
(* of crates/redox-core.                                                   *)
(*                                                                         *)
(* Numbers.  The program computes in f32.  The model computes in fixed     *)
(* point: lengths and velocities are integers counting 1/Unit of a world   *)
(* unit (Unit = 1000, the grid the program itself quantizes vy to),        *)
(* angles count 1/Unit of a degree, and costs (g, f, h) are integers       *)
(* counting 1/Dt of one physics tick, so that dt = Dt cost units.  A       *)
(* product with dt becomes a rounded division by the tick rate tps         *)
(* (dt = 1/tps seconds).  f32::MAX is the sentinel F32_MAX.                *)
(*                                                                         *)
(* Option<T> is a sequence of length 0 (None) or 1 (Some).                 *)
(***************************************************************************)
EXTENDS Integers, Sequences, FiniteSets, TLC

\* One world unit (and one unit of vy, and one degree) in fixed point.
Unit == 1000

\* The cost of one physics tick (dt) in cost units.
Dt == 100

\* The stand-in for f32::MAX, in fixed point.
F32_MAX == 2000000000

None == <<>>

Some(v) == <<v>>

Max(a, b) == IF a >= b THEN a ELSE b

Min(a, b) == IF a <= b THEN a ELSE b

Abs(a) == IF a >= 0 THEN a ELSE -a

Clamp(v, lo, hi) == IF v < lo THEN lo ELSE IF v > hi THEN hi ELSE v

\* a / b rounded to the nearest integer, halves away from zero (f32::round).
RoundDiv(a, b) ==
    IF a >= 0 THEN (2 * a + b) \div (2 * b) ELSE -((2 * (-a) + b) \div (2 * b))

\* ceil(a / b) for b > 0 (f32::ceil).
CeilDiv(a, b) == -((-a) \div b)

(***************************************************************************)
(* Configuration (config.rs).  Velocities and accelerations are per        *)
(* second, in fixed point; a per-speed-tier table is indexed by speed + 1. *)
(***************************************************************************)
DefaultPhysics ==
    [ gravities         |-> <<-2747520, -2794108, -2786400, -2799360, -2799360>>,
      jump_velocities   |-> <<573482, 603722, 616682, 606422, 606422>>,
      player_speeds     |-> <<251160, 311580, 387420, 468000, 576000>>,
      player_width      |-> 30 * Unit,
      player_height     |-> 30 * Unit,
      ship_velocities   |-> <<101541, 103486, 103377, 103809, 103809>>,
      ship_bounds       |-> 300 * Unit,
      tps               |-> 240,
      vertical_dt_scale |-> 1,
      vy_quantize_step  |-> 1000 ]

\* heuristic_weight is kept in tenths (1.8 = 18/10).
DefaultSearch ==
    [ heuristic_weight          |-> 18,
      x_quant                   |-> 1 * Unit,
      y_quant                   |-> 1 * Unit,
      vy_quant                  |-> 10 * Unit,
      stagnation_check_interval |-> 50000000,
      min_progress_per_interval |-> 15 * Unit ]

DefaultConfig == [physics |-> DefaultPhysics, search |-> DefaultSearch]

Tier(table, speed) == table[speed + 1]

(***************************************************************************)
(* Physics stepper (simulation/physics.rs).                                *)
(***************************************************************************)
\* round(v * vy_quantize_step) / vy_quantize_step for v = num / den.
QuantizeVy(num, den, params) ==
    LET grid == Unit \div params.vy_quantize_step
    IN  RoundDiv(num, den * grid) * grid

\* The acceleration the Ship branch selects.
ShipAccel(pressing, vy, threshold, gm) ==
    IF pressing
    THEN IF (gm > 0 /\ vy <= threshold) \/ (gm < 0 /\ vy >= threshold)
         THEN 1397049 * gm
         ELSE 1117643 * gm
    ELSE IF (gm > 0 /\ vy >= threshold) \/ (gm < 0 /\ vy <= threshold)
         THEN -1341172 * gm
         ELSE -894115 * gm

\* The Ship branch's clamp of the player into [floor, ceiling].
ShipClamp(flipped, s, params) ==
    LET half_height == params.player_height \div 2
        \* player_top and player_bottom are computed once, before either test
        top == s.position.y + half_height
        bottom == s.position.y - half_height
        clampTop(t) ==
            IF top > s.ceiling
            THEN [t EXCEPT !.vy = IF t.vy > 0 THEN 0 ELSE t.vy,
                           !.position.y = s.ceiling - half_height]
            ELSE t
        clampBottom(t) ==
            IF bottom < s.floor
            THEN [t EXCEPT !.vy = IF t.vy < 0 THEN 0 ELSE t.vy,
                           !.position.y = s.floor + half_height]
            ELSE t
    IN  IF ~(s.ceiling < F32_MAX \div 2) THEN s
        ELSE IF flipped THEN clampTop(clampBottom(s))
        ELSE clampBottom(clampTop(s))

\* physics_simulate_step jumping whenever the button is held on the ground.
physics_simulate_step_held(state, action, params) ==
    LET pressing == CASE action = "Press" -> TRUE
                      [] action = "Release" -> FALSE
                      [] OTHER -> state.pressing
        gm == IF state.gravity_flipped THEN -1 ELSE 1
        tps == params.tps
        effective_gravity == Tier(params.gravities, state.speed) * gm
        dx == RoundDiv(Tier(params.player_speeds, state.speed), tps)
        cube ==
            LET jump == pressing /\ state.on_ground
                vy0 == IF jump THEN Tier(params.jump_velocities, state.speed) * gm
                       ELSE state.vy
                on_ground == IF jump THEN FALSE ELSE state.on_ground
                vy == QuantizeVy(vy0 * tps + effective_gravity, tps, params)
                y == state.position.y + RoundDiv(vy * params.vertical_dt_scale, tps)
                rotation == IF ~on_ground
                            THEN state.rotation - RoundDiv(360 * Unit, tps) * gm
                            ELSE RoundDiv(state.rotation, 90 * Unit) * (90 * Unit)
            IN  [state EXCEPT !.pressing = pressing, !.vy = vy, !.on_ground = on_ground,
                              !.position.y = y, !.rotation = rotation]
        ship ==
            LET threshold == Tier(params.ship_velocities, state.speed) * gm
                accel == ShipAccel(pressing, state.vy, threshold, gm)
                vy == QuantizeVy(Clamp(state.vy * tps + accel, -800 * Unit * tps,
                                       800 * Unit * tps), tps, params)
                y == state.position.y + RoundDiv(vy * params.vertical_dt_scale, tps)
                moved == [state EXCEPT !.pressing = pressing, !.vy = vy, !.position.y = y]
                bounded == ShipClamp(state.gravity_flipped, moved, params)
            IN  [bounded EXCEPT !.rotation = Clamp(RoundDiv(bounded.vy, 8),
                                                   -45 * Unit, 45 * Unit) * gm,
                                !.on_ground = FALSE]
        stepped == IF state.mode = "Cube" THEN cube ELSE ship
    IN  [stepped EXCEPT !.position.x = stepped.position.x + dx]

\* physics::simulate_step.
physics_simulate_step(state, action, params) ==
    LET pressing == CASE action = "Press" -> TRUE
                      [] action = "Release" -> FALSE
                      [] OTHER -> state.pressing
        gm == IF state.gravity_flipped THEN -1 ELSE 1
        tps == params.tps
        effective_gravity == Tier(params.gravities, state.speed) * gm
        dx == RoundDiv(Tier(params.player_speeds, state.speed), tps)
        cube ==
            LET jump == action = "Press" /\ state.on_ground
                vy0 == IF jump THEN Tier(params.jump_velocities, state.speed) * gm
                       ELSE state.vy
                on_ground == IF jump THEN FALSE ELSE state.on_ground
                vy == QuantizeVy(vy0 * tps + effective_gravity, tps, params)
                y == state.position.y + RoundDiv(vy * params.vertical_dt_scale, tps)
                rotation == IF ~on_ground
                            THEN state.rotation - RoundDiv(360 * Unit, tps) * gm
                            ELSE RoundDiv(state.rotation, 90 * Unit) * (90 * Unit)
            IN  [state EXCEPT !.pressing = pressing, !.vy = vy, !.on_ground = on_ground,
                              !.position.y = y, !.rotation = rotation]
        ship ==
            LET threshold == Tier(params.ship_velocities, state.speed) * gm
                accel == ShipAccel(pressing, state.vy, threshold, gm)
                vy == QuantizeVy(Clamp(state.vy * tps + accel, -800 * Unit * tps,
                                       800 * Unit * tps), tps, params)
                y == state.position.y + RoundDiv(vy * params.vertical_dt_scale, tps)
                moved == [state EXCEPT !.pressing = pressing, !.vy = vy, !.position.y = y]
                bounded == ShipClamp(state.gravity_flipped, moved, params)
            IN  [bounded EXCEPT !.rotation = Clamp(RoundDiv(bounded.vy, 8),
                                                   -45 * Unit, 45 * Unit) * gm,
                                !.on_ground = FALSE]
        stepped == IF state.mode = "Cube" THEN cube ELSE ship
    IN  [stepped EXCEPT !.position.x = stepped.position.x + dx]

(***************************************************************************)
(* Oriented bounding boxes (game_object/obb.rs).  Rotations are whole      *)
(* multiples of 90 degrees, whose cosine and sine are exact.               *)
(***************************************************************************)
Cos90(deg) == CASE deg % 360 = 0 -> 1 [] deg % 360 = 180 -> -1 [] OTHER -> 0

Sin90(deg) == CASE deg % 360 = 90 -> 1 [] deg % 360 = 270 -> -1 [] OTHER -> 0

Vec2(x, y) == [x |-> x, y |-> y]

Dot(a, b) == a.x * b.x + a.y * b.y

OBB2D(center, width, height, rotation_degrees) ==
    LET cos_a == Cos90(rotation_degrees)
        sin_a == Sin90(rotation_degrees)
        hw == width \div 2
        hh == height \div 2
        axis_x == Vec2(cos_a, sin_a)
        axis_y == Vec2(-sin_a, cos_a)
        x == Vec2(axis_x.x * hw, axis_x.y * hw)
        y == Vec2(axis_y.x * hh, axis_y.y * hh)
    IN  [ center  |-> center,
          corners |-> << Vec2(center.x - x.x - y.x, center.y - x.y - y.y),
                         Vec2(center.x + x.x - y.x, center.y + x.y - y.y),
                         Vec2(center.x + x.x + y.x, center.y + x.y + y.y),
                         Vec2(center.x - x.x + y.x, center.y - x.y + y.y) >>,
          axes    |-> <<axis_x, axis_y>> ]

SetMin(S) == CHOOSE m \in S : \A v \in S : m <= v

SetMax(S) == CHOOSE m \in S : \A v \in S : m >= v

\* (min, max) of the corners' projections onto axis.
project_onto(obb, axis) ==
    LET ps == {Dot(obb.corners[i], axis) : i \in 1..4}
    IN  <<SetMin(ps), SetMax(ps)>>

\* Separating-axis test over both boxes' axes.
overlaps(a, b) ==
    \A axis \in {a.axes[1], a.axes[2], b.axes[1], b.axes[2]} :
        LET pa == project_onto(a, axis)
            pb == project_onto(b, axis)
        IN  ~(pa[2] < pb[1] \/ pb[2] < pa[1])

(***************************************************************************)
(* Game objects (game_object/from_raw.rs): the catalog's category, shape   *)
(* and base size, scaled; the OBB is precomputed for rectangles only.      *)
(***************************************************************************)
GameObject(id, object_type, hitbox_shape, x, y, width, height, rotation) ==
    [ id           |-> id,
      object_type  |-> object_type,
      position     |-> Vec2(x, y),
      rotation     |-> rotation,
      hitbox_shape |-> hitbox_shape,
      width        |-> width,
      height       |-> height,
      obb          |-> IF hitbox_shape = "Rectangle"
                       THEN Some(OBB2D(Vec2(x, y), width, height, rotation))
                       ELSE None ]

(***************************************************************************)
(* Spatial grid (spatial_grid.rs).                                         *)
(***************************************************************************)
\* ObjectCells filing an object under the cell of its centre only.
ObjectCells_centre(obj, cell_size) ==
    {<<obj.position.x \div cell_size, obj.position.y \div cell_size>>}

\* The cells SpatialGrid::new files an object under.
ObjectCells(obj, cell_size) ==
    LET xs == IF obj.obb /= None
              THEN {obj.obb[1].corners[i].x : i \in 1..4}
              ELSE {obj.position.x - obj.width \div 2, obj.position.x + obj.width \div 2}
        ys == IF obj.obb /= None
              THEN {obj.obb[1].corners[i].y : i \in 1..4}
              ELSE {obj.position.y - obj.width \div 2, obj.position.y + obj.width \div 2}
    IN  (SetMin(xs) \div cell_size .. SetMax(xs) \div cell_size)
            \X (SetMin(ys) \div cell_size .. SetMax(ys) \div cell_size)

\* SpatialGrid::new: cells maps a cell to the indices filed under it.
SpatialGrid(objects, cell_size) ==
    LET occupied == UNION {ObjectCells(objects[i], cell_size) : i \in DOMAIN objects}
    IN  [ cell_size |-> cell_size,
          cells     |-> [c \in occupied |->
                            {i \in DOMAIN objects : c \in ObjectCells(objects[i], cell_size)}] ]

\* SpatialGrid::query: the de-duplicated indices, in no particular order.
query(grid, position, width, height) ==
    LET half_w == width \div 2
        half_h == height \div 2
        cxs == (position.x - half_w) \div grid.cell_size .. (position.x + half_w) \div grid.cell_size
        cys == (position.y - half_h) \div grid.cell_size .. (position.y + half_h) \div grid.cell_size
    IN  UNION {grid.cells[c] : c \in (cxs \X cys) \cap DOMAIN grid.cells}

\* The elements of a set of numbers in ascending order.
RECURSIVE Ascending(_)
Ascending(S) ==
    IF S = {} THEN <<>> ELSE <<SetMin(S)>> \o Ascending(S \ {SetMin(S)})

\* The concatenation of a sequence of sequences.
RECURSIVE Concat(_)
Concat(seqs) == IF seqs = <<>> THEN <<>> ELSE seqs[1] \o Concat(Tail(seqs))

\* The indices query's loops come by, in the order `for cx, for cy, for &idx`;
\* a cell's Vec holds its indices in the order SpatialGrid::new pushed them.
Visited(grid, position, width, height) ==
    LET start_x == (position.x - width \div 2) \div grid.cell_size
        end_x == (position.x + width \div 2) \div grid.cell_size
        start_y == (position.y - height \div 2) \div grid.cell_size
        end_y == (position.y + height \div 2) \div grid.cell_size
        rows == end_y - start_y + 1
    IN  Concat([k \in 1..((end_x - start_x + 1) * rows) |->
                   IF <<start_x + (k - 1) \div rows, start_y + ((k - 1) % rows)>>
                          \in DOMAIN grid.cells
                   THEN Ascending(grid.cells[<<start_x + (k - 1) \div rows,
                                               start_y + ((k - 1) % rows)>>])
                   ELSE <<>>])

\* What SpatialGrid::query yields: the items of unique_indices, the HashSet
\* the visited indices were inserted into.  A HashSet yields its items in an
\* order of its own; ascending stands for it.
query_items(grid, position, width, height) ==
    Ascending({Visited(grid, position, width, height)[k] :
                   k \in DOMAIN Visited(grid, position, width, height)})

(***************************************************************************)
(* Pathfinder construction (pathfinder/builder.rs).                        *)
(***************************************************************************)
ObjMinX(obj) == obj.position.x - obj.width \div 2

\* Stable insertion of obj into a sequence sorted by ObjMinX.
RECURSIVE SortedInsert(_, _)
SortedInsert(sorted, obj) ==
    IF sorted = <<>> THEN <<obj>>
    ELSE IF ObjMinX(sorted[Len(sorted)]) <= ObjMinX(obj) THEN Append(sorted, obj)
    ELSE Append(SortedInsert(SubSeq(sorted, 1, Len(sorted) - 1), obj), sorted[Len(sorted)])

\* objects.sort_by(min x), a stable sort.
RECURSIVE SortByMinX(_)
SortByMinX(objects) ==
    IF objects = <<>> THEN <<>>
    ELSE SortedInsert(SortByMinX(SubSeq(objects, 1, Len(objects) - 1)),
                      objects[Len(objects)])

\* The Pathfinder over the sorted objects.
Build(sorted, config) ==
    [ objects       |-> sorted,
      config        |-> config,
      max_obj_width |-> SetMax({0} \cup {sorted[i].width : i \in DOMAIN sorted}) + 10 * Unit,
      grid          |-> SpatialGrid(sorted, 128 * Unit) ]

with_config(objects, config) == Build(SortByMinX(objects), config)

(***************************************************************************)
(* Terrain response (pathfinder/sim.rs).                                   *)
(***************************************************************************)
\* objects.partition_point(|obj| obj_min_x < search_start_x) on the sorted list.
partition_point(objects, search_start_x) ==
    SetMin({i \in 1..Len(objects) : ~(ObjMinX(objects[i]) < search_start_x)}
           \cup {Len(objects) + 1})

\* The indices the sweep visits: from start_idx up to the first object that
\* starts right of max_x (the break).
ScanRange(objects, start_idx, max_x) ==
    {i \in start_idx..Len(objects) : \A j \in start_idx..i : ObjMinX(objects[j]) <= max_x}

PlayerOBB(position, params) ==
    OBB2D(position, params.player_width, params.player_height, 0)

\* LandsOn without the test of the side the player comes from.
LandsOn_anyside(pf, prev_state, next_state, obj) ==
    LET params == pf.config.physics
        half == params.player_height \div 2
        prev_player_bottom == IF prev_state.gravity_flipped
                              THEN prev_state.position.y + half
                              ELSE prev_state.position.y - half
        player_bottom == IF next_state.gravity_flipped
                         THEN next_state.position.y + half
                         ELSE next_state.position.y - half
        obj_top == obj.position.y + obj.height \div 2
        obj_bottom == obj.position.y - obj.height \div 2
        obj_left == obj.position.x - obj.width \div 2
        obj_right == obj.position.x + obj.width \div 2
        player_left == next_state.position.x - params.player_width \div 2
        player_right == next_state.position.x + params.player_width \div 2
        h_overlap == Max(Min(player_right, obj_right) - Max(player_left, obj_left), 0)
        min_width == Min(params.player_width, obj.width)
        sufficient_h_overlap == 2 * h_overlap >= min_width
        coming_from_correct_side ==
            IF next_state.gravity_flipped
            THEN prev_player_bottom <= obj_bottom + 2 * Unit
            ELSE prev_player_bottom >= obj_top - 2 * Unit
        falling_towards_surface ==
            IF next_state.gravity_flipped THEN next_state.vy >= 0 ELSE next_state.vy <= 0
        landing_on_surface ==
            IF next_state.gravity_flipped
            THEN player_bottom >= obj_bottom - 5 * Unit /\ player_bottom <= obj_top
            ELSE player_bottom <= obj_top + 5 * Unit /\ player_bottom >= obj_bottom
    IN  /\ obj.object_type = "Solid"
        /\ ~(Abs(obj.position.x - next_state.position.x) > 200 * Unit)
        /\ obj.obb /= None
        /\ overlaps(PlayerOBB(next_state.position, params), obj.obb[1])
        /\ falling_towards_surface
        /\ landing_on_surface
        /\ sufficient_h_overlap

\* The four landing conditions of apply_landing_logic for one object.
LandsOn(pf, prev_state, next_state, obj) ==
    LET params == pf.config.physics
        half == params.player_height \div 2
        prev_player_bottom == IF prev_state.gravity_flipped
                              THEN prev_state.position.y + half
                              ELSE prev_state.position.y - half
        player_bottom == IF next_state.gravity_flipped
                         THEN next_state.position.y + half
                         ELSE next_state.position.y - half
        obj_top == obj.position.y + obj.height \div 2
        obj_bottom == obj.position.y - obj.height \div 2
        obj_left == obj.position.x - obj.width \div 2
        obj_right == obj.position.x + obj.width \div 2
        player_left == next_state.position.x - params.player_width \div 2
        player_right == next_state.position.x + params.player_width \div 2
        h_overlap == Max(Min(player_right, obj_right) - Max(player_left, obj_left), 0)
        min_width == Min(params.player_width, obj.width)
        sufficient_h_overlap == 2 * h_overlap >= min_width
        coming_from_correct_side ==
            IF next_state.gravity_flipped
            THEN prev_player_bottom <= obj_bottom + 2 * Unit
            ELSE prev_player_bottom >= obj_top - 2 * Unit
        falling_towards_surface ==
            IF next_state.gravity_flipped THEN next_state.vy >= 0 ELSE next_state.vy <= 0
        landing_on_surface ==
            IF next_state.gravity_flipped
            THEN player_bottom >= obj_bottom - 5 * Unit /\ player_bottom <= obj_top
            ELSE player_bottom <= obj_top + 5 * Unit /\ player_bottom >= obj_bottom
    IN  /\ obj.object_type = "Solid"
        /\ ~(Abs(obj.position.x - next_state.position.x) > 200 * Unit)
        /\ obj.obb /= None
        /\ overlaps(PlayerOBB(next_state.position, params), obj.obb[1])
        /\ coming_from_correct_side
        /\ falling_towards_surface
        /\ landing_on_surface
        /\ sufficient_h_overlap

apply_landing_logic(pf, prev_state, next_state0) ==
    LET params == pf.config.physics
        half == params.player_height \div 2
        next_state == [next_state0 EXCEPT !.on_ground = FALSE]
        new_min_x == next_state.position.x - params.player_width \div 2
        new_max_x == next_state.position.x + params.player_width \div 2
        start_idx == partition_point(pf.objects, new_min_x - pf.max_obj_width)
        hits == {i \in ScanRange(pf.objects, start_idx, new_max_x) :
                    LandsOn(pf, prev_state, next_state, pf.objects[i])}
        landed == hits /= {}
        obj == pf.objects[SetMin(hits)]
    IN  IF landed
        THEN [next_state EXCEPT
                !.position.y = IF next_state.gravity_flipped
                               THEN obj.position.y - obj.height \div 2 - half - 1
                               ELSE obj.position.y + obj.height \div 2 + half + 1,
                !.vy = 0, !.on_ground = TRUE, !.rotation = 0]
        ELSE IF ~next_state.gravity_flipped /\ next_state.position.y < half
        THEN [next_state EXCEPT !.position.y = half, !.vy = 0,
                                !.on_ground = TRUE, !.rotation = 0]
        ELSE next_state

\* PortalEffect centring the ship's bounds on the portal: the floor is
\* neither put on the 30-unit grid nor kept from going below 0.
PortalEffect_centred(pf, state, obj) ==
    CASE obj.object_type = "ShipPortal" ->
            [state EXCEPT !.mode = "Ship", !.on_ground = FALSE,
                          !.floor = obj.position.y - pf.config.physics.ship_bounds \div 2,
                          !.ceiling = obj.position.y + pf.config.physics.ship_bounds \div 2]
      [] obj.object_type = "CubePortal" ->
            [state EXCEPT !.mode = "Cube", !.floor = 0, !.ceiling = F32_MAX]
      [] obj.object_type = "InverseGravityPortal" ->
            [state EXCEPT !.gravity_flipped = TRUE]
      [] obj.object_type = "NormalGravityPortal" ->
            [state EXCEPT !.gravity_flipped = FALSE]
      [] OTHER -> state

\* PortalEffect whose ShipPortal reverses gravity as well.
PortalEffect_flipping(pf, state, obj) ==
    CASE obj.object_type = "ShipPortal" ->
            [state EXCEPT !.mode = "Ship", !.on_ground = FALSE,
                          !.gravity_flipped = TRUE,
                          !.floor = Max(30 * Unit
                                          * CeilDiv(obj.position.y
                                                      - (pf.config.physics.ship_bounds \div 2
                                                           + 30 * Unit),
                                                    30 * Unit), 0),
                          !.ceiling = Max(30 * Unit
                                            * CeilDiv(obj.position.y
                                                        - (pf.config.physics.ship_bounds \div 2
                                                             + 30 * Unit),
                                                      30 * Unit), 0)
                                      + pf.config.physics.ship_bounds]
      [] obj.object_type = "CubePortal" ->
            [state EXCEPT !.mode = "Cube", !.floor = 0, !.ceiling = F32_MAX]
      [] obj.object_type = "InverseGravityPortal" ->
            [state EXCEPT !.gravity_flipped = TRUE]
      [] obj.object_type = "NormalGravityPortal" ->
            [state EXCEPT !.gravity_flipped = FALSE]
      [] OTHER -> state

\* PortalEffect whose CubePortal sets the mode and leaves the bounds.
PortalEffect_modeonly(pf, state, obj) ==
    CASE obj.object_type = "ShipPortal" ->
            [state EXCEPT !.mode = "Ship", !.on_ground = FALSE,
                          !.floor = Max(30 * Unit
                                          * CeilDiv(obj.position.y
                                                      - (pf.config.physics.ship_bounds \div 2
                                                           + 30 * Unit),
                                                    30 * Unit), 0),
                          !.ceiling = Max(30 * Unit
                                            * CeilDiv(obj.position.y
                                                        - (pf.config.physics.ship_bounds \div 2
                                                             + 30 * Unit),
                                                      30 * Unit), 0)
                                      + pf.config.physics.ship_bounds]
      [] obj.object_type = "CubePortal" -> [state EXCEPT !.mode = "Cube"]
      [] obj.object_type = "InverseGravityPortal" ->
            [state EXCEPT !.gravity_flipped = TRUE]
      [] obj.object_type = "NormalGravityPortal" ->
            [state EXCEPT !.gravity_flipped = FALSE]
      [] OTHER -> state

\* The effect of one overlapped object in check_portal_collisions.
PortalEffect(pf, state, obj) ==
    LET ship_bounds == pf.config.physics.ship_bounds
        half_bounds == ship_bounds \div 2
        floor == Max(30 * Unit * CeilDiv(obj.position.y - (half_bounds + 30 * Unit),
                                         30 * Unit), 0)
    IN  CASE obj.object_type = "ShipPortal" ->
                [state EXCEPT !.mode = "Ship", !.on_ground = FALSE,
                              !.floor = floor, !.ceiling = floor + ship_bounds]
          [] obj.object_type = "CubePortal" ->
                [state EXCEPT !.mode = "Cube", !.floor = 0, !.ceiling = F32_MAX]
          [] obj.object_type = "InverseGravityPortal" ->
                [state EXCEPT !.gravity_flipped = TRUE]
          [] obj.object_type = "NormalGravityPortal" ->
                [state EXCEPT !.gravity_flipped = FALSE]
          [] OTHER -> state

\* The sweep of check_portal_collisions over the visited indices from i on.
RECURSIVE PortalSweep(_, _, _, _, _)
PortalSweep(pf, player_obb, visited, i, state) ==
    IF i \notin visited THEN state
    ELSE LET obj == pf.objects[i]
             hit == obj.obb /= None /\ overlaps(player_obb, obj.obb[1])
         IN  PortalSweep(pf, player_obb, visited, i + 1,
                         IF hit THEN PortalEffect(pf, state, obj) ELSE state)

check_portal_collisions(pf, state) ==
    LET params == pf.config.physics
        player_min_x == state.position.x - params.player_width \div 2
        player_max_x == state.position.x + params.player_width \div 2
        start_idx == partition_point(pf.objects, player_min_x - pf.max_obj_width)
        visited == ScanRange(pf.objects, start_idx, player_max_x)
    IN  PortalSweep(pf, PlayerOBB(state.position, params), visited, start_idx, state)

\* simulate_step without the landing step.
Landed_skipped(pf, prev_state, stepped) == stepped

\* The landing step of simulate_step: Cube mode only.
Landed(pf, prev_state, stepped) ==
    IF stepped.mode = "Cube" THEN apply_landing_logic(pf, prev_state, stepped) ELSE stepped

\* Pathfinder::simulate_step: physics, then landing, then portals.
simulate_step(pf, state, action) ==
    check_portal_collisions(pf,
        Landed(pf, state, physics_simulate_step(state, action, pf.config.physics)))

(***************************************************************************)
(* Hazard test (collision.rs).                                             *)
(***************************************************************************)
\* dist_sq <= radius^2 for the rectangle's closest point to the circle's
\* centre; a closest point further than radius along one axis decides it
\* without squaring.
circle_rect_intersects(circle_center, radius, rect_center, rect_w, rect_h) ==
    LET half_w == rect_w \div 2
        half_h == rect_h \div 2
        closest_x == Clamp(circle_center.x, rect_center.x - half_w, rect_center.x + half_w)
        closest_y == Clamp(circle_center.y, rect_center.y - half_h, rect_center.y + half_h)
        dx == circle_center.x - closest_x
        dy == circle_center.y - closest_y
    IN  /\ Abs(dx) <= radius
        /\ Abs(dy) <= radius
        /\ dx * dx + dy * dy <= radius * radius

\* Whether the loop body of collides_info returns Some(obj.id) for obj.
Fatal(state, obj, params) ==
    LET is_colliding ==
            IF obj.hitbox_shape = "Circle"
            THEN circle_rect_intersects(obj.position, obj.width \div 2, state.position,
                                        params.player_width, params.player_height)
            ELSE obj.obb /= None /\ overlaps(PlayerOBB(state.position, params), obj.obb[1])
        obj_top == obj.position.y + obj.height \div 2
        obj_bottom == obj.position.y - obj.height \div 2
        obj_left == obj.position.x - obj.width \div 2
        obj_right == obj.position.x + obj.width \div 2
        player_top == state.position.y + params.player_height \div 2
        player_bottom == state.position.y - params.player_height \div 2
        player_left == state.position.x - params.player_width \div 2
        player_right == state.position.x + params.player_width \div 2
        h_overlap == Min(player_right, obj_right) - Max(player_left, obj_left)
        v_overlap == Min(player_top, obj_top) - Max(player_bottom, obj_bottom)
        is_above_obj == state.position.y >= obj_top - 5 * Unit
        is_below_obj == state.position.y <= obj_bottom + 5 * Unit
        grazing == (is_above_obj \/ is_below_obj) /\ v_overlap < 15 * Unit
                   /\ h_overlap > 5 * Unit
        player_feet == IF state.gravity_flipped THEN player_top ELSE player_bottom
        surface_level == IF state.gravity_flipped THEN obj_bottom ELSE obj_top
        is_in_surface_zone == /\ player_feet >= surface_level - 5 * Unit
                              /\ player_feet <= surface_level + 5 * Unit
    IN  /\ ~(Abs(obj.position.x - state.position.x) > 200 * Unit)
        /\ is_colliding
        /\ \/ obj.object_type \in {"Sawblade", "Hazard"}
           \/ /\ obj.object_type = "Solid"
              /\ IF state.mode = "Ship" THEN ~grazing ELSE ~is_in_surface_zone

\* collides_info returning at the first candidate it meets, fatal or not.
collides_info_first(state, objects, grid, params) ==
    LET candidates == query(grid, state.position, params.player_width + 400 * Unit,
                            params.player_height + 400 * Unit)
    IN  IF candidates = {} THEN {None}
        ELSE {IF Fatal(state, objects[i], params) THEN Some(objects[i].id) ELSE None :
                i \in candidates}

\* collides_info: the values it may return.  The grid yields the candidates
\* in no particular order and the first fatal one met is returned.
collides_info(state, objects, grid, params) ==
    LET candidates == query(grid, state.position, params.player_width + 400 * Unit,
                            params.player_height + 400 * Unit)
        fatal == {i \in candidates : Fatal(state, objects[i], params)}
    IN  IF fatal = {} THEN {None} ELSE {Some(objects[i].id) : i \in fatal}

(***************************************************************************)
(* State key and heuristic (state.rs, pathfinder/search.rs).               *)
(***************************************************************************)
\* StateKey::from_state: the packed fields, low bits first.  The fields
\* occupy disjoint bit ranges of the u128, so the key is the tuple of the
\* truncated fields; xi and yi fill 32 bits each and are kept as the i32.
from_state(state, x_quant, y_quant, vy_quant) ==
    LET xi == state.position.x \div x_quant
        yi == state.position.y \div y_quant
        vyi == state.vy \div vy_quant
        ceiling_i == IF state.ceiling >= F32_MAX \div 2
                     THEN 10000
                     ELSE state.ceiling \div (30 * Unit)
        mode_bit == IF state.mode = "Cube" THEN 0 ELSE 1
    IN  << xi, yi, vyi % 16777216, ceiling_i % 65536,
           IF state.on_ground THEN 1 ELSE 0,
           IF state.gravity_flipped THEN 1 ELSE 0,
           IF state.pressing THEN 1 ELSE 0,
           mode_bit, state.speed % 8 >>

\* 2^i for i in 0..30.
Pow2 ==
    << 1, 2, 4, 8, 16, 32, 64, 128, 256, 512, 1024, 2048, 4096, 8192, 16384, 32768,
       65536, 131072, 262144, 524288, 1048576, 2097152, 4194304, 8388608, 16777216,
       33554432, 67108864, 134217728, 268435456, 536870912, 1073741824 >>

\* Bit i of the i32 v in two's complement.
Bit(v, i) == IF i >= 31 THEN v < 0 ELSE (v \div Pow2[i + 1]) % 2 = 1

\* The bits that `(v & mask) as u128 << offset` sets, mask being the low
\* `width` bits; a u128 is the set of the positions of its one bits, and |=
\* is union.
Field(v, width, offset) == {offset + i : i \in {j \in 0..(width - 1) : Bit(v, j)}}

\* packed with the ceiling shifted in unmasked, as a whole u32.
packed_wide(state, x_quant, y_quant, vy_quant) ==
    Field(state.position.x \div x_quant, 32, 0)
    \cup Field(state.position.y \div y_quant, 32, 32)
    \cup Field(state.vy \div vy_quant, 24, 64)
    \cup Field(IF state.ceiling >= F32_MAX \div 2 THEN 10000
               ELSE state.ceiling \div (30 * Unit), 32, 88)
    \cup (IF state.on_ground THEN {104} ELSE {})
    \cup (IF state.gravity_flipped THEN {105} ELSE {})
    \cup (IF state.pressing THEN {106} ELSE {})
    \cup Field(IF state.mode = "Cube" THEN 0 ELSE 1, 1, 107)
    \cup Field(state.speed, 3, 108)

\* packed with the quotients rounded to the nearest instead of floored.
packed_rounded(state, x_quant, y_quant, vy_quant) ==
    Field(RoundDiv(state.position.x, x_quant), 32, 0)
    \cup Field(RoundDiv(state.position.y, y_quant), 32, 32)
    \cup Field(RoundDiv(state.vy, vy_quant), 24, 64)
    \cup Field(IF state.ceiling >= F32_MAX \div 2 THEN 10000
               ELSE state.ceiling \div (30 * Unit), 16, 88)
    \cup (IF state.on_ground THEN {104} ELSE {})
    \cup (IF state.gravity_flipped THEN {105} ELSE {})
    \cup (IF state.pressing THEN {106} ELSE {})
    \cup Field(IF state.mode = "Cube" THEN 0 ELSE 1, 1, 107)
    \cup Field(state.speed, 3, 108)

\* StateKey::from_state, bit by bit: the u128 `packed` it returns.
packed(state, x_quant, y_quant, vy_quant) ==
    Field(state.position.x \div x_quant, 32, 0)
    \cup Field(state.position.y \div y_quant, 32, 32)
    \cup Field(state.vy \div vy_quant, 24, 64)
    \cup Field(IF state.ceiling >= F32_MAX \div 2 THEN 10000
               ELSE state.ceiling \div (30 * Unit), 16, 88)
    \cup (IF state.on_ground THEN {104} ELSE {})
    \cup (IF state.gravity_flipped THEN {105} ELSE {})
    \cup (IF state.pressing THEN {106} ELSE {})
    \cup Field(IF state.mode = "Cube" THEN 0 ELSE 1, 1, 107)
    \cup Field(state.speed, 3, 108)

\* heuristic without the max(0.0): the distance is negative past the goal.
heuristic_signed(state, goal_x, params, heuristic_weight) ==
    LET dist == goal_x - state.position.x
        per_tick == RoundDiv(Tier(params.player_speeds, state.speed), params.tps)
        time_to_goal == (dist * Dt) \div per_tick
    IN  (time_to_goal * heuristic_weight) \div 10

\* heuristic, in cost units: seconds become ticks * Dt.
heuristic(state, goal_x, params, heuristic_weight) ==
    LET dist == Max(goal_x - state.position.x, 0)
        per_tick == RoundDiv(Tier(params.player_speeds, state.speed), params.tps)
        time_to_goal == (dist * Dt) \div per_tick
        center_y == (state.floor + state.ceiling) \div 2
        vertical_offset == Abs(state.position.y - center_y)
        penalty == IF state.mode = "Ship" /\ state.ceiling < F32_MAX \div 2
                   THEN (((vertical_offset * params.tps) \div 300) * Dt) \div Unit
                   ELSE 0
    IN  ((time_to_goal + penalty) * heuristic_weight) \div 10

\* cmp breaking a tie in f towards the lower x.
cmp_lowx(self, other) ==
    CASE other.f < self.f -> "Less"
      [] other.f > self.f -> "Greater"
      [] self.x > other.x -> "Less"
      [] self.x < other.x -> "Greater"
      [] self.index < other.index -> "Less"
      [] self.index > other.index -> "Greater"
      [] OTHER -> "Equal"

\* NodeIndexWrapper::cmp: the order of the max-heap.
cmp(self, other) ==
    CASE other.f < self.f -> "Less"
      [] other.f > self.f -> "Greater"
      [] self.x < other.x -> "Less"
      [] self.x > other.x -> "Greater"
      [] self.index < other.index -> "Less"
      [] self.index > other.index -> "Greater"
      [] OTHER -> "Equal"

\* BinaryHeap::pop: a greatest entry.
HeapTop(open_set) == CHOOSE w \in open_set : \A o \in open_set : cmp(w, o) /= "Less"

(***************************************************************************)
(* Search session (pathfinder/search.rs, pathfinder/solver.rs).            *)
(***************************************************************************)
SearchSession_new(start_node, start_pos_x) ==
    [ open_set           |-> {[f |-> start_node.f, index |-> 0,
                               x |-> start_node.state.position.x]},
      closed_set         |-> <<>>,
      all_nodes          |-> <<start_node>>,
      nodes_expanded     |-> 0,
      goal_reached_index |-> None,
      best_x_index       |-> 0,
      best_x             |-> start_pos_x,
      checkpoint_best_x  |-> start_pos_x,
      checkpoint_nodes   |-> 0 ]

\* StartState with the slowest speed tier in place of the normal one.
StartState_slow(start_pos) ==
    [ position        |-> start_pos,
      vy              |-> 0,
      on_ground       |-> TRUE,
      rotation        |-> 0,
      mode            |-> "Cube",
      gravity_flipped |-> FALSE,
      floor           |-> 0,
      ceiling         |-> F32_MAX,
      pressing        |-> FALSE,
      speed           |-> 0 ]

StartState(start_pos) ==
    [ position        |-> start_pos,
      vy              |-> 0,
      on_ground       |-> TRUE,
      rotation        |-> 0,
      mode            |-> "Cube",
      gravity_flipped |-> FALSE,
      floor           |-> 0,
      ceiling         |-> F32_MAX,
      pressing        |-> FALSE,
      speed           |-> 1 ]

start_search(pf, start_pos, goal) ==
    LET start_state == StartState(start_pos)
        start_node == [ g            |-> 0,
                        f            |-> heuristic(start_state, goal, pf.config.physics,
                                                   pf.config.search.heuristic_weight),
                        state        |-> start_state,
                        parent_index |-> None,
                        action       |-> None ]
    IN  SearchSession_new(start_node, start_pos.x)

\* all_nodes is 0-indexed in the program.
NodeAt(all_nodes, idx) == all_nodes[idx + 1]

\* actions_to_try offering Press whether the button is held or not.
actions_to_try_repress(state) ==
    IF state.mode = "Cube"
    THEN IF state.on_ground THEN <<"None", "Press">>
         ELSE IF state.pressing THEN <<"None", "Release">> ELSE <<"None">>
    ELSE IF state.pressing THEN <<"None", "Release", "Press">> ELSE <<"None", "Press">>

\* actions_to_try offering Press to a Cube in the air as well.
actions_to_try_airborne(state) ==
    IF state.pressing THEN <<"None", "Release">>
    ELSE <<"None", "Press">>

\* The candidate actions of a node's state, None first.
actions_to_try(state) ==
    IF state.pressing THEN <<"None", "Release">>
    ELSE IF state.mode = "Cube"
         THEN IF state.on_ground THEN <<"None", "Press">> ELSE <<"None">>
         ELSE <<"None", "Press">>

\* NewG charging the Cube's press penalty in every mode.
NewG_modeless(g, action, mode) ==
    g + Dt + (IF action = "Press" THEN 15 * Dt ELSE 0)

\* NewG charging nothing for the tick itself.
NewG_free(g, action, mode) ==
    g + (IF action = "Press"
         THEN IF mode = "Cube" THEN 15 * Dt ELSE Dt \div 2
         ELSE 0)

\* The cost of taking action from a node with cost g in mode.
NewG(g, action, mode) ==
    g + Dt + (IF action = "Press"
              THEN IF mode = "Cube" THEN 15 * Dt ELSE Dt \div 2
              ELSE 0)

\* Pruned without the dt/2 tolerance: an equal cost is skipped as well.
Pruned_eager(closed_set, key, g) ==
    key \in DOMAIN closed_set /\ g >= closed_set[key]

\* Whether the closed map lets a popped node with cost g under key be skipped.
Pruned(closed_set, key, g) ==
    key \in DOMAIN closed_set /\ g > closed_set[key] + Dt \div 2

\* HashMap::insert.
Insert(map, key, value) ==
    [k \in DOMAIN map \cup {key} |-> IF k = key THEN value ELSE map[k]]

\* The node step_single builds for a surviving next_state.
Child(pf, goal, current_idx, current_node, action, next_state) ==
    [ g            |-> NewG(current_node.g, action, current_node.state.mode),
      f            |-> NewG(current_node.g, action, current_node.state.mode)
                       + heuristic(next_state, goal, pf.config.physics,
                                   pf.config.search.heuristic_weight),
      state        |-> next_state,
      parent_index |-> Some(current_idx),
      action       |-> Some(action) ]

\* Discarded without the collision test.
Discarded_offscreen(pf, next_state) ==
    next_state.position.y < -100 * Unit

\* The two tests that discard a candidate.
Discarded(pf, next_state) ==
    \/ next_state.position.y < -100 * Unit
    \/ collides_info(next_state, pf.objects, pf.grid, pf.config.physics) /= {None}

\* all_nodes.push(next_node); open_set.push(wrapper).
Push(session, next_node) ==
    [session EXCEPT
        !.all_nodes = Append(@, next_node),
        !.open_set = @ \cup {[f |-> next_node.f, index |-> Len(session.all_nodes),
                              x |-> next_node.state.position.x]}]

\* The body of the expansion loop for one candidate action.
TryAction(pf, session, goal, current_idx, action, next_state) ==
    IF Discarded(pf, next_state) THEN session
    ELSE Push(session, Child(pf, goal, current_idx,
                             NodeAt(session.all_nodes, current_idx), action, next_state))

\* The expansion loop of step_single from the k-th candidate action on.
RECURSIVE Expand(_, _, _, _, _, _)
Expand(pf, session, goal, current_idx, actions, k) ==
    IF k > Len(actions) THEN session
    ELSE Expand(pf,
                TryAction(pf, session, goal, current_idx, actions[k],
                          simulate_step(pf, NodeAt(session.all_nodes, current_idx).state,
                                        actions[k])),
                goal, current_idx, actions, k + 1)

\* StagnationDue one expansion late.
StagnationDue_late(session, search) ==
    session.nodes_expanded > session.checkpoint_nodes + search.stagnation_check_interval

\* Whether the stagnation check is due at the entry of step_single.
StagnationDue(session, search) ==
    session.nodes_expanded >= session.checkpoint_nodes + search.stagnation_check_interval

\* Stagnated measuring the progress from 0 instead of from the checkpoint.
Stagnated_total(session, search) ==
    session.best_x < search.min_progress_per_interval

\* The stagnation verdict: progress since the checkpoint below the minimum.
Stagnated(session, search) ==
    session.best_x - session.checkpoint_best_x < search.min_progress_per_interval

\* The checkpoint update of a stagnation check that passes.
Checkpointed(session, search) ==
    IF StagnationDue(session, search)
    THEN [session EXCEPT !.checkpoint_best_x = session.best_x,
                         !.checkpoint_nodes = session.nodes_expanded]
    ELSE session

\* TrackBest recording every popped node as the best one.
TrackBest_last(session, current_idx) ==
    [session EXCEPT !.best_x = NodeAt(session.all_nodes, current_idx).state.position.x,
                    !.best_x_index = current_idx]

\* best_x / best_x_index after popping the node at current_idx.
TrackBest(session, current_idx) ==
    IF NodeAt(session.all_nodes, current_idx).state.position.x > session.best_x
    THEN [session EXCEPT !.best_x = NodeAt(session.all_nodes, current_idx).state.position.x,
                         !.best_x_index = current_idx]
    ELSE session

\* Pop without the best_x update.
Pop_untracked(session, wrapper) ==
    [session EXCEPT !.open_set = @ \ {wrapper}, !.nodes_expanded = @ + 1]

\* open_set.pop(), nodes_expanded += 1 and the best_x update.
Pop(session, wrapper) ==
    TrackBest([session EXCEPT !.open_set = @ \ {wrapper}, !.nodes_expanded = @ + 1],
              wrapper.index)

\* Visit with a strict goal test: a node exactly at the goal is not a goal.
Visit_strict(pf, session, goal, current_idx, current_node, key) ==
    IF current_node.state.position.x > goal
    THEN [ session |-> [session EXCEPT !.goal_reached_index = Some(current_idx)],
           ret |-> TRUE, popped |-> Some(current_idx) ]
    ELSE IF Pruned(session.closed_set, key, current_node.g)
    THEN [ session |-> session, ret |-> FALSE, popped |-> Some(current_idx) ]
    ELSE [ session |-> Expand(pf, [session EXCEPT !.closed_set =
                                      Insert(@, key, current_node.g)],
                              goal, current_idx, actions_to_try(current_node.state), 1),
           ret |-> FALSE, popped |-> Some(current_idx) ]

\* What step_single does with the popped node: the goal test, the closed-set
\* test, the expansion.
Visit(pf, session, goal, current_idx, current_node, key) ==
    IF current_node.state.position.x >= goal
    THEN [ session |-> [session EXCEPT !.goal_reached_index = Some(current_idx)],
           ret |-> TRUE, popped |-> Some(current_idx) ]
    ELSE IF Pruned(session.closed_set, key, current_node.g)
    THEN [ session |-> session, ret |-> FALSE, popped |-> Some(current_idx) ]
    ELSE [ session |-> Expand(pf, [session EXCEPT !.closed_set =
                                      Insert(@, key, current_node.g)],
                              goal, current_idx, actions_to_try(current_node.state), 1),
           ret |-> FALSE, popped |-> Some(current_idx) ]

\* The pop of wrapper and what follows it.
VisitTop(pf, session, goal, wrapper) ==
    Visit(pf, Pop(session, wrapper), goal, wrapper.index,
          NodeAt(session.all_nodes, wrapper.index),
          from_state(NodeAt(session.all_nodes, wrapper.index).state,
                     pf.config.search.x_quant, pf.config.search.y_quant,
                     pf.config.search.vy_quant))

PopAndExpand(pf, session, goal) == VisitTop(pf, session, goal, HeapTop(session.open_set))

\* step_single answering an empty open set the way step does: false.
step_single_busy(pf, session, goal) ==
    IF session.goal_reached_index /= None
    THEN [session |-> session, ret |-> TRUE, popped |-> None]
    ELSE IF session.open_set = {}
    THEN [session |-> session, ret |-> FALSE, popped |-> None]
    ELSE IF StagnationDue(session, pf.config.search)
            /\ Stagnated(session, pf.config.search)
    THEN [ session |-> [session EXCEPT !.goal_reached_index = Some(session.best_x_index)],
           ret |-> TRUE, popped |-> None ]
    ELSE PopAndExpand(pf, Checkpointed(session, pf.config.search), goal)

\* step_single without the test of goal_reached_index at its entry: a search
\* that has ended goes on popping.
step_single_resumes(pf, session, goal) ==
    IF session.open_set = {}
    THEN [session |-> session, ret |-> TRUE, popped |-> None]
    ELSE IF StagnationDue(session, pf.config.search)
            /\ Stagnated(session, pf.config.search)
    THEN [ session |-> [session EXCEPT !.goal_reached_index = Some(session.best_x_index)],
           ret |-> TRUE, popped |-> None ]
    ELSE PopAndExpand(pf, Checkpointed(session, pf.config.search), goal)

\* Pathfinder::step_single: the session it leaves, the value it returns and
\* the index it popped, if any.
step_single(pf, session, goal) ==
    IF session.goal_reached_index /= None \/ session.open_set = {}
    THEN [session |-> session, ret |-> TRUE, popped |-> None]
    ELSE IF StagnationDue(session, pf.config.search)
            /\ Stagnated(session, pf.config.search)
    THEN [ session |-> [session EXCEPT !.goal_reached_index = Some(session.best_x_index)],
           ret |-> TRUE, popped |-> None ]
    ELSE PopAndExpand(pf, Checkpointed(session, pf.config.search), goal)

\* The loop of reconstruct_path run for at most k rounds from curr: the node
\* it stops at, the rounds it ran, and the pairs it pushed, in the order it
\* pushed them (end_node's first).  The rounds are run as two halves one
\* after the other, the first half bound to a value before the second
\* starts, to keep the evaluation shallow.
RECURSIVE Walk(_, _, _)
Walk(nodes, curr, k) ==
    IF k = 0 \/ curr.parent_index = None
    THEN [curr |-> curr, rounds |-> 0, path |-> <<>>]
    ELSE IF k = 1
    THEN [ curr   |-> NodeAt(nodes, curr.parent_index[1]),
           rounds |-> 1,
           path   |-> IF curr.action /= None THEN << <<curr.action[1], Dt>> >> ELSE <<>> ]
    ELSE CHOOSE walked \in
            { IF a.rounds < k \div 2 THEN a
              ELSE CHOOSE both \in
                      { [curr |-> b.curr, rounds |-> a.rounds + b.rounds,
                         path |-> a.path \o b.path] :
                          b \in {Walk(nodes, a.curr, k - k \div 2)} } : TRUE :
                a \in {Walk(nodes, curr, k \div 2)} } : TRUE

\* path.reverse().
Reverse(path) == [i \in 1..Len(path) |-> path[Len(path) + 1 - i]]

\* PathTo without the reversal: the pairs from end_node back to the root.
PathTo_backwards(nodes, node) == Walk(nodes, node, Len(nodes) + 1).path

\* Pathfinder::reconstruct_path, first half: the (action, dt) pairs from the
\* root to end_node.  A chain of parents is shorter than the arena.
PathTo(nodes, node) == Reverse(Walk(nodes, node, Len(nodes) + 1).path)

\* Merge folding a None into the entry before it, whatever that entry is.
RECURSIVE Merge_any(_, _)
Merge_any(path, merged) ==
    IF path = <<>> THEN merged
    ELSE IF Len(path) = 1
    THEN IF path[1][1] = "None" /\ merged /= <<>>
         THEN [merged EXCEPT ![Len(merged)] = <<@[1], @[2] + path[1][2]>>]
         ELSE Append(merged, path[1])
    ELSE CHOOSE all \in
            { Merge_any(SubSeq(path, Len(path) \div 2 + 1, Len(path)), half) :
                half \in {Merge_any(SubSeq(path, 1, Len(path) \div 2), merged)} } : TRUE

\* Second half: runs of None are merged into one entry.  The loop over path
\* is run as two halves one after the other, like Walk.
RECURSIVE Merge(_, _)
Merge(path, merged) ==
    IF path = <<>> THEN merged
    ELSE IF Len(path) = 1
    THEN IF path[1][1] = "None" /\ merged /= <<>> /\ merged[Len(merged)][1] = "None"
         THEN [merged EXCEPT ![Len(merged)] = <<"None", @[2] + path[1][2]>>]
         ELSE Append(merged, path[1])
    ELSE CHOOSE all \in
            { Merge(SubSeq(path, Len(path) \div 2 + 1, Len(path)), half) :
                half \in {Merge(SubSeq(path, 1, Len(path) \div 2), merged)} } : TRUE

reconstruct_path(nodes, end_node) == Merge(PathTo(nodes, end_node), <<>>)

(***************************************************************************)
(* Playback (redox-cli, visualizer/app.rs).                                *)
(***************************************************************************)
\* The inner loop of setup_playback: remaining_frames ticks of None.  The
\* ticks are played as two halves one after the other, the first half bound
\* to a value before the second starts, to keep the evaluation shallow.
RECURSIVE Hold(_, _, _)
Hold(pf_playback, curr_state, remaining_frames) ==
    IF remaining_frames = 0 THEN curr_state
    ELSE IF remaining_frames = 1 THEN simulate_step(pf_playback, curr_state, "None")
    ELSE CHOOSE played \in
            {Hold(pf_playback, half, remaining_frames - remaining_frames \div 2) :
                half \in {Hold(pf_playback, curr_state, remaining_frames \div 2)}} : TRUE

\* The ticks setup_playback spends on one entry: round(duration / dt), and
\* at least the one on which the entry's action is applied.
Frames(entry) == 1 + Max(RoundDiv(entry[2], Dt) - 1, 0)

\* The loop of setup_playback over the entries lo..hi of actions: the
\* entry's action on its first tick, None on its remaining ticks; in two
\* halves like Hold.
RECURSIVE Replay(_, _, _, _, _)
Replay(pf_playback, curr_state, actions, lo, hi) ==
    IF lo > hi THEN curr_state
    ELSE IF lo = hi
    THEN CHOOSE played \in
            {Hold(pf_playback, first, Frames(actions[lo]) - 1) :
                first \in {simulate_step(pf_playback, curr_state, actions[lo][1])}} : TRUE
    ELSE CHOOSE played \in
            {Replay(pf_playback, half, actions, (lo + hi) \div 2 + 1, hi) :
                half \in {Replay(pf_playback, curr_state, actions, lo, (lo + hi) \div 2)}} :
            TRUE

\* The number of states setup_playback pushes after the start state, for
\* the entries lo..hi of actions.
RECURSIVE PlayedStates(_, _, _)
PlayedStates(actions, lo, hi) ==
    IF lo > hi THEN 0
    ELSE IF lo = hi THEN Frames(actions[lo])
    ELSE PlayedStates(actions, lo, (lo + hi) \div 2)
         + PlayedStates(actions, (lo + hi) \div 2 + 1, hi)

\* What has happened so far: the indices popped, in order; those of them
\* that were not skipped by the closed-set test (a goal pop is never skipped:
\* the goal test comes first); and the value of nodes_expanded when best_x
\* last rose.
Track(pf, hist, before, r) ==
    [ pops        |-> IF r.popped /= None THEN Append(hist.pops, r.popped[1])
                      ELSE hist.pops,
      expanded    |-> IF /\ r.popped /= None
                         /\ \/ r.ret
                            \/ ~Pruned(before.closed_set,
                                       from_state(NodeAt(before.all_nodes, r.popped[1]).state,
                                                  pf.config.search.x_quant,
                                                  pf.config.search.y_quant,
                                                  pf.config.search.vy_quant),
                                       NodeAt(before.all_nodes, r.popped[1]).g)
                      THEN Append(hist.expanded, r.popped[1])
                      ELSE hist.expanded,
      progress_at |-> IF r.session.best_x > before.best_x
                      THEN r.session.nodes_expanded
                      ELSE hist.progress_at ]

(***************************************************************************)
(* Inputs.                                                                 *)
(***************************************************************************)
\* The arena size up to which the caller keeps calling.
MaxNodes == 400

\* Goals are 0, GoalStep, ..., MaxGoalSteps * GoalStep world units.
MaxGoalSteps == 2

\* Stagnation intervals 1..MaxInterval are tried beside the default.
MaxInterval == 4

\* The small constant C8 adds to the interval.
Epsilon == 2

GoalStep == 40 * Unit

\* A configuration whose jump is a short hop, back on the floor in 3 ticks.
HopPhysics == [DefaultPhysics EXCEPT !.jump_velocities = <<20000, 20000, 20000, 20000, 20000>>]

PhysicsChoices == {DefaultPhysics, HopPhysics}

\* The default search configuration with heuristic_weight = 1.0.
UnitWeightSearch == [DefaultSearch EXCEPT !.heuristic_weight = 10]

SearchChoices ==
    {[DefaultSearch EXCEPT !.stagnation_check_interval = i,
                           !.min_progress_per_interval = m] :
        i \in (1..MaxInterval) \cup {DefaultSearch.stagnation_check_interval},
        m \in {1 * Unit, DefaultSearch.min_progress_per_interval}}
    \cup {UnitWeightSearch}

\* A full-height wall of the given category whose left edge is at left.
Wall(object_type, left) ==
    GameObject(1, object_type, "Rectangle", left + 15 * Unit, 300 * Unit,
               30 * Unit, 600 * Unit, 0)

\* A ship portal (id 13, 34 x 86) stretched to seven times its height, so
\* that it reaches from the floor up; its centre is at (left + 17, 300).
TallShipPortal(left) ==
    GameObject(13, "ShipPortal", "Rectangle", left + 17 * Unit, 300 * Unit,
               34 * Unit, 602 * Unit, 0)

\* A 30 x 30 hazard hanging over the floor whose left edge is at left and
\* whose lower edge is 1 unit above the top of a player on the floor.
Overhang(id, left) ==
    GameObject(id, "Hazard", "Rectangle", left + 15 * Unit, 46 * Unit,
               30 * Unit, 30 * Unit, 0)

Levels ==
    { <<>>,
      <<Wall("Solid", 16 * Unit)>>,
      <<Wall("Solid", 21 * Unit)>>,
      <<Overhang(2, 16 * Unit), Wall("Hazard", 22 * Unit)>>,
      <<TallShipPortal(20 * Unit)>> }

\* The start positions tried: on the floor, at x = 0 and a little to the right.
StartChoices == {Vec2(0, 15 * Unit), Vec2(2 * Unit, 15 * Unit)}

(***************************************************************************)
(* The state machine: a caller of start_search, step_single and step.      *)
(* Init is the state start_search leaves.  step is a loop around           *)
(* step_single; pc = "step" while the caller is inside it.                 *)
(***************************************************************************)
VARIABLES
    pathfinder,   \* the Pathfinder: objects, config, max_obj_width, grid
    start_pos,    \* the start position the session was started with
    goal_x,       \* the goal the session was started with
    session,      \* the SearchSession
    pc,           \* "caller", or "step" inside Pathfinder::step
    call,         \* the last operation called
    ret,          \* what the last operation to return has returned
    hist,         \* what has happened so far (Track)
    stop_flag,    \* the visualizer's AtomicBool shared by its two threads
    driver,       \* the locals of the visualizer's search thread
    tx,           \* the SearchMessages sent on the channel, in order
    app,          \* the VisualizerApp: viz_state, final_actions, and the messages it has received
    since_stop,   \* the step_single calls made since stop_flag was set
    args          \* the arguments of a function applied on its own

\* The visualizer's variables.
viz == <<stop_flag, driver, tx, app, since_stop>>

vars == <<pathfinder, start_pos, goal_x, session, pc, call, ret, hist,
          stop_flag, driver, tx, app, since_stop, args>>

\* run_visualizer before its search thread has done anything: the flag is
\* clear, nothing is sent, the application is in Computing.
VizIdle ==
    /\ stop_flag = FALSE
    /\ driver = [round |-> 0, steps_since_update |-> 0, done |-> FALSE]
    /\ tx = <<>>
    /\ app = [viz_state |-> "Computing", received |-> 0, final_actions |-> None]
    /\ since_stop = 0

Init ==
    \E objects \in Levels, physics \in PhysicsChoices, search \in SearchChoices,
       start \in StartChoices, k \in 0..MaxGoalSteps :
        /\ pathfinder = with_config(objects, [physics |-> physics, search |-> search])
        /\ start_pos = start
        /\ goal_x = k * GoalStep
        /\ session = start_search(pathfinder, start, goal_x)
        /\ pc = "caller"
        /\ call = "start_search"
        /\ ret = TRUE
        /\ hist = [pops |-> <<>>, expanded |-> <<>>, progress_at |-> 0]
        /\ VizIdle
        /\ args = <<>>

\* The caller calls step_single once.
StepSingle ==
    /\ pc = "caller"
    /\ Len(session.all_nodes) <= MaxNodes
    /\ \E r \in {step_single(pathfinder, session, goal_x)} :
           /\ session' = r.session
           /\ ret' = r.ret
           /\ hist' = Track(pathfinder, hist, session, r)
    /\ call' = "step_single"
    /\ UNCHANGED <<pathfinder, start_pos, goal_x, pc>>
    /\ UNCHANGED <<viz, args>>

\* The caller calls step.
StepCall ==
    /\ pc = "caller"
    /\ Len(session.all_nodes) <= MaxNodes
    /\ pc' = "step"
    /\ call' = "step"
    /\ UNCHANGED <<pathfinder, start_pos, goal_x, session, ret, hist>>
    /\ UNCHANGED <<viz, args>>

\* step returning whatever its first call of step_single returns.
StepLoop_once ==
    /\ pc = "step"
    /\ session.open_set /= {}
    /\ \E r \in {step_single(pathfinder, session, goal_x)} :
           /\ session' = r.session
           /\ hist' = Track(pathfinder, hist, session, r)
           /\ ret' = r.ret
           /\ pc' = "caller"
    /\ UNCHANGED <<pathfinder, start_pos, goal_x, call>>
    /\ UNCHANGED <<viz, args>>

\* One turn of step's loop: step_single, and return true if it did.
StepLoop ==
    /\ pc = "step"
    /\ session.open_set /= {}
    /\ \E r \in {step_single(pathfinder, session, goal_x)} :
           /\ session' = r.session
           /\ hist' = Track(pathfinder, hist, session, r)
           /\ IF r.ret THEN ret' = TRUE /\ pc' = "caller"
                       ELSE UNCHANGED <<ret, pc>>
    /\ UNCHANGED <<pathfinder, start_pos, goal_x, call>>
    /\ UNCHANGED <<viz, args>>

\* step's loop ends on an empty open set: return false.
StepExhausted ==
    /\ pc = "step"
    /\ session.open_set = {}
    /\ ret' = FALSE
    /\ pc' = "caller"
    /\ UNCHANGED <<pathfinder, start_pos, goal_x, session, call, hist>>
    /\ UNCHANGED <<viz, args>>

Next == StepSingle \/ StepCall \/ StepLoop \/ StepExhausted

Spec == Init /\ [][Next]_vars

(***************************************************************************)
(* Properties.                                                             *)
(***************************************************************************)
Last(seq) == seq[Len(seq)]

\* A step of the state machine in which step_single is called.
SingleCalled ==
    \/ pc = "caller" /\ pc' = "caller"
    \/ pc = "step" /\ session.open_set /= {}

\* The call of step_single of this step returns true.
ReturnsTrue == pc' = "caller" /\ ret' = TRUE

\* This step pops a node: idx is the index of the open-set entry taken.
PopsNode(idx) ==
    /\ session'.nodes_expanded = session.nodes_expanded + 1
    /\ \E w \in session.open_set : w.index = idx /\ w \notin session'.open_set

\* The session start_search returns, as far as the contract describes it,
\* with the start state on speed tier tier.
Seeded(tier) ==
    /\ Len(session.all_nodes) = 1
    /\ session.all_nodes[1].g = 0
    /\ session.all_nodes[1].parent_index = None
    /\ session.all_nodes[1].action = None
    /\ session.all_nodes[1].state.mode = "Cube"
    /\ session.all_nodes[1].state.position = start_pos
    /\ session.all_nodes[1].state.vy = 0
    /\ session.all_nodes[1].state.on_ground = TRUE
    /\ session.all_nodes[1].state.pressing = FALSE
    /\ session.all_nodes[1].state.gravity_flipped = FALSE
    /\ session.all_nodes[1].state.speed = tier
    /\ Cardinality(session.open_set) = 1
    /\ \A w \in session.open_set : w.index = 0
    /\ session.goal_reached_index = None
    /\ session.best_x_index = 0
    /\ session.best_x = start_pos.x
    /\ session.checkpoint_best_x = start_pos.x

XOf(idx) == NodeAt(session.all_nodes, idx).state.position.x

\* C2: whenever step_single pops a node whose x >= goal_x, it sets
\* goal_reached_index to that node's index, returns true and appends no node
\* to the arena; and a pop sets goal_reached_index only for a node with
\* x >= goal_x.
C2_GoalPop ==
    [][\A idx \in 0..(Len(session.all_nodes) - 1) :
          PopsNode(idx) =>
            /\ XOf(idx) >= goal_x =>
                 /\ session'.goal_reached_index = Some(idx)
                 /\ ReturnsTrue
                 /\ session'.all_nodes = session.all_nodes
            /\ session'.goal_reached_index /= session.goal_reached_index =>
                 XOf(idx) >= goal_x]_vars

\* C2, witness: the search ended on the pop of a node beyond the root that
\* is at or past the goal.
C2_GoalPopped ==
    /\ hist.pops /= <<>>
    /\ Last(hist.pops) > 0
    /\ session.goal_reached_index = Some(Last(hist.pops))
    /\ NodeAt(session.all_nodes, Last(hist.pops)).state.position.x >= goal_x
    /\ ret = TRUE

\* What the stagnation rule does in this step, entered with the check due.
StagnationRule ==
    IF session.best_x - session.checkpoint_best_x
          < pathfinder.config.search.min_progress_per_interval
    THEN /\ session'.goal_reached_index = Some(session.best_x_index)
         /\ ReturnsTrue
         /\ session'.nodes_expanded = session.nodes_expanded
         /\ session'.open_set = session.open_set
    ELSE /\ session'.checkpoint_best_x = session.best_x
         /\ session'.checkpoint_nodes = session.nodes_expanded
         /\ \E idx \in 0..(Len(session.all_nodes) - 1) : PopsNode(idx)

\* step_single is entered with a non-empty open set and the check due.
CheckDue ==
    /\ SingleCalled
    /\ session.open_set /= {}
    /\ session.nodes_expanded >= session.checkpoint_nodes
                                 + pathfinder.config.search.stagnation_check_interval

\* C3 (amended): when step_single is entered with goal_reached_index = None,
\* a non-empty open set and nodes_expanded >= checkpoint_nodes +
\* stagnation_check_interval, then if best_x - checkpoint_best_x <
\* min_progress_per_interval it sets goal_reached_index = Some(best_x_index)
\* and returns true without popping; otherwise it sets checkpoint_best_x =
\* best_x and checkpoint_nodes = nodes_expanded and goes on with a pop.
C3_StagnationRuleWhileSearching ==
    [][CheckDue /\ session.goal_reached_index = None => StagnationRule]_vars

\* C3, witness: a check has passed and moved the checkpoint, and a later one
\* has fired and designated a best node beyond the root.
C3_CheckPassedThenFired ==
    /\ session.checkpoint_nodes > 0
    /\ session.nodes_expanded >= session.checkpoint_nodes
                                 + pathfinder.config.search.stagnation_check_interval
    /\ session.goal_reached_index = Some(session.best_x_index)
    /\ session.best_x_index > 0
    /\ session.best_x < goal_x
    /\ session.open_set /= {}

\* C3 as stated: the rule acts whenever the open set is non-empty and the
\* check is due.
C3_StagnationRuleAlways == [][CheckDue => StagnationRule]_vars

\* The indices of the nodes met on the way up from idx, idx first and the
\* root left out, for at most k steps; top is the node the way has reached.
RECURSIVE Lineage(_, _, _)
Lineage(nodes, idx, k) ==
    IF k = 0 \/ NodeAt(nodes, idx).parent_index = None
    THEN [top |-> idx, met |-> <<>>]
    ELSE IF k = 1
    THEN [top |-> NodeAt(nodes, idx).parent_index[1], met |-> <<idx>>]
    ELSE CHOOSE way \in
            { IF Len(a.met) < k \div 2 THEN a
              ELSE CHOOSE both \in
                      { [top |-> b.top, met |-> a.met \o b.met] :
                          b \in {Lineage(nodes, a.top, k - k \div 2)} } : TRUE :
                a \in {Lineage(nodes, idx, k \div 2)} } : TRUE

\* The number of parent links from the node at idx up to the root.
Depth(nodes, idx) == Len(Lineage(nodes, idx, Len(nodes)).met)

\* The sum of the durations of the entries lo..hi of a path.
RECURSIVE DurationOf(_, _, _)
DurationOf(path, lo, hi) ==
    IF lo > hi THEN 0
    ELSE IF lo = hi THEN path[lo][2]
    ELSE DurationOf(path, lo, (lo + hi) \div 2) + DurationOf(path, (lo + hi) \div 2 + 1, hi)

\* The sum of the durations of a path.
Duration(path) == DurationOf(path, 1, Len(path))

\* The path reconstructed from the best node of session s.
BestPath(s) == reconstruct_path(s.all_nodes, NodeAt(s.all_nodes, s.best_x_index))

\* best_x_index of s designates a node of the arena whose parent chain leads
\* to the root, and the path reconstructed from it is a sequence of actions
\* with positive durations lasting one dt per link of the chain.
PartialPath(s) ==
    /\ s.best_x_index \in 0..(Len(s.all_nodes) - 1)
    /\ \A i \in 0..(Len(s.all_nodes) - 1) :
          \/ i = 0 /\ NodeAt(s.all_nodes, i).parent_index = None
          \/ i > 0 /\ NodeAt(s.all_nodes, i).parent_index /= None
                   /\ NodeAt(s.all_nodes, i).parent_index[1] \in 0..(i - 1)
    /\ \A k \in 1..Len(BestPath(s)) :
          /\ BestPath(s)[k][1] \in {"None", "Press", "Release"}
          /\ BestPath(s)[k][2] > 0
    /\ Duration(BestPath(s)) = Dt * Depth(s.all_nodes, s.best_x_index)

\* C4: once the open set is empty with goal_reached_index = None (no goal
\* popped, no stagnation), goal_reached_index stays None, every step_single
\* call returns true and changes nothing, and best_x_index designates a
\* node from which a partial path can be reconstructed.
C4_NoPath ==
    [][session.open_set = {} /\ session.goal_reached_index = None =>
          /\ session'.goal_reached_index = None
          /\ pc = "caller" /\ pc' = "caller" => ret' = TRUE /\ session' = session
          /\ PartialPath(session')]_vars

\* C4, witness: step_single has been called on an exhausted open set and has
\* returned true, with a best node beyond the root.
C4_ExhaustedCalled ==
    /\ session.open_set = {}
    /\ session.goal_reached_index = None
    /\ call = "step_single"
    /\ ret = TRUE
    /\ session.best_x_index > 0

\* C5: in every terminated session with goal_reached_index = Some(i),
\* best_x >= goal_x holds if and only if node i has x >= goal_x.
C5_SuccessIffBestAtGoal ==
    session.goal_reached_index /= None =>
        (session.best_x >= goal_x
            <=> NodeAt(session.all_nodes,
                       session.goal_reached_index[1]).state.position.x >= goal_x)

\* C5, witness: stagnation has ended a search short of the goal, after
\* progress.
C5_StagnatedShort ==
    /\ session.goal_reached_index /= None
    /\ session.best_x < goal_x
    /\ session.best_x > start_pos.x
    /\ NodeAt(session.all_nodes, session.goal_reached_index[1]).state.position.x < goal_x

\* The full-height solid walls of the level that stand between the start
\* and the goal.
BlockingWalls ==
    {i \in 1..Len(pathfinder.objects) :
        /\ pathfinder.objects[i].object_type = "Solid"
        /\ pathfinder.objects[i].position.y - pathfinder.objects[i].height \div 2 <= 0
        /\ pathfinder.objects[i].height >= 600 * Unit
        /\ ObjMinX(pathfinder.objects[i])
              > start_pos.x + pathfinder.config.physics.player_width \div 2
        /\ pathfinder.objects[i].position.x < goal_x}

\* The search has ended.
Ended == session.goal_reached_index /= None \/ session.open_set = {}

C7_StepTerminates ==
    [][/\ pc = "step" /\ pc' = "caller" =>
            session'.goal_reached_index /= None \/ session'.open_set = {}
       /\ call = "step" /\ pc = "caller" /\ pc' = "caller" =>
            ret' = TRUE /\ session' = session]_vars

\* C7, witness: step has run the open set dry over several pops and returned.
C7_StepReturned ==
    /\ call = "step"
    /\ pc = "caller"
    /\ ret = FALSE
    /\ session.open_set = {}
    /\ Len(hist.pops) > 1

\* C8 (amended): with stagnation enabled (min_progress_per_interval > 0), the
\* search terminates fewer than 2 * stagnation_check_interval node
\* expansions after the last increase of best_x.
C8_StallBelowTwoIntervals ==
    pathfinder.config.search.min_progress_per_interval > 0 =>
        session.nodes_expanded - hist.progress_at
            < 2 * pathfinder.config.search.stagnation_check_interval

\* C8, witness: stagnation has fired more than an interval of expansions
\* after the last increase of best_x, a check having passed in between.
C8_FiredAfterStall ==
    /\ session.goal_reached_index = Some(session.best_x_index)
    /\ session.best_x < goal_x
    /\ hist.progress_at > 0
    /\ session.checkpoint_nodes >= hist.progress_at
    /\ session.nodes_expanded - hist.progress_at
          > pathfinder.config.search.stagnation_check_interval

\* C8 as stated: the search terminates at most stagnation_check_interval
\* plus a small constant expansions after the last increase of best_x.
C8_StallWithinInterval ==
    pathfinder.config.search.min_progress_per_interval > 0 =>
        session.nodes_expanded - hist.progress_at
            <= pathfinder.config.search.stagnation_check_interval + Epsilon

\* The x of the nodes popped so far, and of the start.
PoppedXs(h, s) ==
    {start_pos.x} \cup {NodeAt(s.all_nodes, h.pops[k]).state.position.x : k \in 1..Len(h.pops)}

\* best_x is the greatest x popped so far and best_x_index a node at it.
BestTracked(h, s) ==
    /\ s.best_x \in PoppedXs(h, s)
    /\ \A x \in PoppedXs(h, s) : x <= s.best_x
    /\ s.best_x_index \in 0..(Len(s.all_nodes) - 1)
    /\ NodeAt(s.all_nodes, s.best_x_index).state.position.x = s.best_x

\* C9: after any sequence of step_single calls, best_x is the maximum of the
\* start x and the x of every node popped so far, pruned pops included,
\* all_nodes[best_x_index].state.position.x = best_x, and best_x never
\* decreases.
C9_BestTracked ==
    [][/\ BestTracked(hist, session)
       /\ BestTracked(hist', session')
       /\ session'.best_x >= session.best_x]_vars

\* C9, witness: the node popped last lies behind the best one.
C9_PoppedBehindBest ==
    /\ Len(hist.pops) >= 2
    /\ session.best_x > start_pos.x
    /\ NodeAt(session.all_nodes, Last(hist.pops)).state.position.x < session.best_x
    /\ session.best_x_index /= Last(hist.pops)

\* The StateKey of the node at idx before this step.
KeyOf(idx) ==
    from_state(NodeAt(session.all_nodes, idx).state, pathfinder.config.search.x_quant,
               pathfinder.config.search.y_quant, pathfinder.config.search.vy_quant)

\* The closed map holds a best_g for the key of the node at idx and the
\* node's g is above it by more than dt/2.
Prunable(idx) ==
    /\ KeyOf(idx) \in DOMAIN session.closed_set
    /\ NodeAt(session.all_nodes, idx).g > session.closed_set[KeyOf(idx)] + Dt \div 2

\* The candidate actions of the node at idx whose next state survives.
Survivors(idx) ==
    {k \in 1..Len(actions_to_try(NodeAt(session.all_nodes, idx).state)) :
        ~Discarded(pathfinder,
                   simulate_step(pathfinder, NodeAt(session.all_nodes, idx).state,
                                 actions_to_try(NodeAt(session.all_nodes, idx).state)[k]))}

\* This step expands the node at idx: its g is recorded under its key and
\* one child per surviving candidate is appended.
Expands(idx) ==
    /\ DOMAIN session'.closed_set = DOMAIN session.closed_set \cup {KeyOf(idx)}
    /\ session'.closed_set[KeyOf(idx)] = NodeAt(session.all_nodes, idx).g
    /\ \A k \in DOMAIN session.closed_set \ {KeyOf(idx)} :
          session'.closed_set[k] = session.closed_set[k]
    /\ Len(session'.all_nodes) = Len(session.all_nodes) + Cardinality(Survivors(idx))
    /\ SubSeq(session'.all_nodes, 1, Len(session.all_nodes)) = session.all_nodes
    /\ \A i \in (Len(session.all_nodes) + 1)..Len(session'.all_nodes) :
          session'.all_nodes[i].parent_index = Some(idx)

\* C10: when a non-goal node is popped, it is expanded unless the closed map
\* holds a best_g for its StateKey and the node's g > best_g + dt/2; a
\* pruned pop appends no node and leaves the closed map unchanged, and an
\* expanded pop records the node's g under its key.
C10_ClosedSetPruning ==
    [][\A idx \in 0..(Len(session.all_nodes) - 1) :
          PopsNode(idx) /\ XOf(idx) < goal_x =>
             IF Prunable(idx)
             THEN /\ session'.all_nodes = session.all_nodes
                  /\ session'.closed_set = session.closed_set
             ELSE Expands(idx)]_vars

\* C10, witness: the node popped last was pruned: the closed map holds, for
\* its key, a cost below its g by more than dt/2.
C10_PrunedPop ==
    /\ hist.pops /= <<>>
    /\ session.goal_reached_index = None
    /\ NodeAt(session.all_nodes, Last(hist.pops)).state.position.x < goal_x
    /\ from_state(NodeAt(session.all_nodes, Last(hist.pops)).state,
                  pathfinder.config.search.x_quant, pathfinder.config.search.y_quant,
                  pathfinder.config.search.vy_quant) \in DOMAIN session.closed_set
    /\ NodeAt(session.all_nodes, Last(hist.pops)).g
          > session.closed_set[from_state(NodeAt(session.all_nodes, Last(hist.pops)).state,
                                          pathfinder.config.search.x_quant,
                                          pathfinder.config.search.y_quant,
                                          pathfinder.config.search.vy_quant)] + Dt \div 2

\* Entry w goes before entry o: lower f; at equal f, higher x; at equal f
\* and x, the later insertion index.
GoesBefore(w, o) ==
    \/ w.f < o.f
    \/ w.f = o.f /\ w.x > o.x
    \/ w.f = o.f /\ w.x = o.x /\ w.index > o.index

\* C11: each pop removes an open-set entry with the lowest f; among entries
\* of equal f, one with the highest x; remaining ties are decided by
\* insertion index (the later inserted first), and no two distinct entries
\* of the open set rank equal.
C11_PriorityOrder ==
    [][\A w \in session.open_set :
          /\ PopsNode(w.index) =>
                \A o \in session.open_set \ {w} : GoesBefore(w, o)
          /\ \A o \in session.open_set \ {w} :
                GoesBefore(w, o) \/ GoesBefore(o, w)]_vars

\* C11, witness: after several pops the open set holds entries tied in f at
\* different x, and entries tied in f and x.
C11_TiedEntries ==
    /\ Len(hist.pops) >= 2
    /\ \E a, b \in session.open_set : a.f = b.f /\ a.x < b.x
    /\ \E a, b \in session.open_set : a.f = b.f /\ a.x = b.x /\ a.index < b.index

\* The states the candidate actions of the node at idx lead to.
NextStates(s, idx) ==
    {simulate_step(pathfinder, NodeAt(s.all_nodes, idx).state,
                   actions_to_try(NodeAt(s.all_nodes, idx).state)[k]) :
        k \in 1..Len(actions_to_try(NodeAt(s.all_nodes, idx).state))}

\* What the hazard test may return on state st, over the orders in which
\* SpatialGrid::query may yield its candidates.
HazardResults(st) ==
    collides_info(st, pathfinder.objects, pathfinder.grid, pathfinder.config.physics)

FreshNodes == Len(session.all_nodes) .. Len(session'.all_nodes) - 1

\* The node a non-root node was expanded from.
ParentOf(nodes, idx) == NodeAt(nodes, NodeAt(nodes, idx).parent_index[1])

\* Whether action is among the candidates the claim allows in state parent.
Allowed(action, parent) ==
    /\ action \in {"None", "Press", "Release"}
    /\ action = "Release" => parent.pressing
    /\ action = "Press" => /\ ~parent.pressing
                           /\ \/ parent.mode = "Ship"
                              \/ parent.mode = "Cube" /\ parent.on_ground
    /\ parent.mode = "Cube" /\ ~parent.on_ground /\ ~parent.pressing => action = "None"

\* C13: every node a step appends has a parent and an action that the
\* parent's state allows: Release only from a pressing parent, Press only
\* from a parent that is not pressing and is a Ship or a Cube on the ground,
\* only None from a Cube in the air that is not pressing; and of two
\* children of one parent the later one is never the None child.
C13_CandidateActions ==
    [][\A i \in FreshNodes :
          /\ NodeAt(session'.all_nodes, i).parent_index /= None
          /\ NodeAt(session'.all_nodes, i).action /= None
          /\ Allowed(NodeAt(session'.all_nodes, i).action[1],
                     ParentOf(session'.all_nodes, i).state)
          /\ \A j \in FreshNodes :
                j < i /\ NodeAt(session'.all_nodes, j).parent_index
                           = NodeAt(session'.all_nodes, i).parent_index
                   => NodeAt(session'.all_nodes, i).action[1] /= "None"]_vars

\* C13, witness: the arena holds a Release child, a Press child of a Cube on
\* the ground, a Press child of a Ship, and a child of a Cube in the air.
C13_AllKindsTried ==
    /\ \E r \in 1..(Len(session.all_nodes) - 1) :
          NodeAt(session.all_nodes, r).action = Some("Release")
    /\ \E c \in 1..(Len(session.all_nodes) - 1) :
          /\ NodeAt(session.all_nodes, c).action = Some("Press")
          /\ ParentOf(session.all_nodes, c).state.mode = "Cube"
    /\ \E sh \in 1..(Len(session.all_nodes) - 1) :
          /\ NodeAt(session.all_nodes, sh).action = Some("Press")
          /\ ParentOf(session.all_nodes, sh).state.mode = "Ship"
    /\ \E a \in 1..(Len(session.all_nodes) - 1) :
          /\ ParentOf(session.all_nodes, a).state.mode = "Cube"
          /\ ~ParentOf(session.all_nodes, a).state.on_ground
          /\ ~ParentOf(session.all_nodes, a).state.pressing

\* The three-state input automaton run over the entries lo..hi of path from
\* state st: "idle" while the button is not held, "held" while it is,
\* "rejected" once a Press has come while held or a Release while idle.
RECURSIVE Automaton(_, _, _, _)
Automaton(path, lo, hi, st) ==
    IF lo > hi \/ st = "rejected" THEN st
    ELSE IF lo = hi
    THEN CASE path[lo][1] = "None" -> st
           [] path[lo][1] = "Press" -> IF st = "idle" THEN "held" ELSE "rejected"
           [] path[lo][1] = "Release" -> IF st = "held" THEN "idle" ELSE "rejected"
           [] OTHER -> "rejected"
    ELSE CHOOSE out \in
            { Automaton(path, (lo + hi) \div 2 + 1, hi, half) :
                half \in {Automaton(path, lo, (lo + hi) \div 2, st)} } : TRUE

\* Whether the automaton, started with the button not held, accepts path.
Accepts(path) == Automaton(path, 1, Len(path), "idle") /= "rejected"

\* Whether the action sequence reconstructed for the node at e is accepted
\* by the automaton started with the button not held.
Accepted(nodes, e) == Accepts(reconstruct_path(nodes, NodeAt(nodes, e)))

\* C14: the action sequence reconstructed for the node a step ends the
\* search at, and for every Press or Release child a step appends, is
\* accepted by the automaton: its Press and Release entries alternate, the
\* first of them is a Press, and from a Press to the next Release or the end
\* all entries are None.  (The sequence of a None child is that of its
\* nearest Press or Release ancestor followed by None entries.)
C14_InputAutomaton ==
    [][/\ session.goal_reached_index = None /\ session'.goal_reached_index /= None
             => Accepted(session'.all_nodes, session'.goal_reached_index[1])
       /\ \A i \in FreshNodes :
             NodeAt(session'.all_nodes, i).action /= Some("None")
                => Accepted(session'.all_nodes, i)]_vars

\* C14, witness: the path to the node appended last holds a Press, a Release
\* after it and a second Press after that.
C14_PressedTwice ==
    \E p \in {reconstruct_path(session.all_nodes, Last(session.all_nodes))} :
        \E i, j, k \in 1..Len(p) :
            /\ i < j /\ j < k
            /\ p[i][1] = "Press" /\ p[j][1] = "Release" /\ p[k][1] = "Press"

\* The arena nodes on the way from the root down to the node at idx, the
\* root excluded, in any order.
Trajectory(nodes, idx) ==
    UNION { {NodeAt(nodes, met[k]) : k \in DOMAIN met} :
              met \in {Lineage(nodes, idx, Len(nodes)).met} }

\* C15: every node a step appends has y >= -100 and a state on which the
\* hazard test returns None; and when a step ends the search at a node, the
\* hazard test returns an id on no state of the trajectory to that node, the
\* start state excluded.
C15_SurvivorsOnly ==
    [][/\ \A i \in FreshNodes :
             /\ NodeAt(session'.all_nodes, i).state.position.y >= -100 * Unit
             /\ HazardResults(NodeAt(session'.all_nodes, i).state) = {None}
       /\ session.goal_reached_index = None /\ session'.goal_reached_index /= None
             => \A n \in Trajectory(session'.all_nodes, session'.goal_reached_index[1]) :
                   /\ n.state.position.y >= -100 * Unit
                   /\ HazardResults(n.state) = {None}]_vars

\* C15, witness: in a level with a hazard, a successor of the node popped
\* last has been discarded and another one has been appended.
C15_OneDiscardedOneKept ==
    /\ \E i \in 1..Len(pathfinder.objects) : pathfinder.objects[i].object_type = "Hazard"
    /\ hist.pops /= <<>>
    /\ Len(session.all_nodes) >= 2
    /\ Last(session.all_nodes).parent_index = Some(Last(hist.pops))
    /\ \E st \in NextStates(session, Last(hist.pops)) : HazardResults(st) /= {None}

\* C16: the root has g >= 0, f >= g and no parent; every step leaves the
\* nodes the arena held where and as they were, and every node it appends
\* has g >= 0, f >= g and a parent_index strictly below its own index.
C16_ArenaInvariants ==
    /\ NodeAt(session.all_nodes, 0).g >= 0
    /\ NodeAt(session.all_nodes, 0).f >= NodeAt(session.all_nodes, 0).g
    /\ NodeAt(session.all_nodes, 0).parent_index = None
    /\ [][/\ Len(session'.all_nodes) >= Len(session.all_nodes)
          /\ SubSeq(session'.all_nodes, 1, Len(session.all_nodes)) = session.all_nodes
          /\ \A i \in FreshNodes :
                /\ NodeAt(session'.all_nodes, i).g >= 0
                /\ NodeAt(session'.all_nodes, i).f >= NodeAt(session'.all_nodes, i).g
                /\ NodeAt(session'.all_nodes, i).parent_index /= None
                /\ NodeAt(session'.all_nodes, i).parent_index[1] < i]_vars

\* C16, witness: the arena has grown over several calls and its last node
\* lies past the goal, where the distance to the goal is clamped to 0.
C16_GrownPastGoal ==
    /\ Len(hist.pops) >= 3
    /\ Len(session.all_nodes) >= 4
    /\ Last(session.all_nodes).state.position.x > goal_x
    /\ Last(session.all_nodes).f = Last(session.all_nodes).g
    /\ \E i \in 1..(Len(session.all_nodes) - 1) :
          NodeAt(session.all_nodes, i).f > NodeAt(session.all_nodes, i).g

\* Whether the step pops the entry w and does not skip it: it is at the goal
\* or the closed-set test lets it through.
PopsUnpruned(w) ==
    /\ PopsNode(w.index)
    /\ \/ NodeAt(session.all_nodes, w.index).state.position.x >= goal_x
       \/ ~Prunable(w.index)

\* The node of the last pop that was not skipped.
LastExpanded == NodeAt(session.all_nodes, Last(hist.expanded))

PressPenalty(action, mode) ==
    CASE action = "Press" /\ mode = "Cube" -> 15 * Dt
      [] action = "Press" /\ mode = "Ship" -> Dt \div 2
      [] OTHER -> 0

\* C18: every node a step appends has g = parent.g + dt + press_penalty,
\* with press_penalty 15 * dt for a Press taken by a Cube parent, dt / 2 for
\* a Press taken by a Ship parent and 0 for None and Release; and its g is at
\* least its depth times dt.
C18_PerStateCost ==
    [][\A i \in FreshNodes :
          /\ NodeAt(session'.all_nodes, i).g
                = ParentOf(session'.all_nodes, i).g + Dt
                  + PressPenalty(NodeAt(session'.all_nodes, i).action[1],
                                 ParentOf(session'.all_nodes, i).state.mode)
          /\ NodeAt(session'.all_nodes, i).g >= Depth(session'.all_nodes, i) * Dt]_vars

\* C18, witness: the arena holds a Press child of a Cube, a Press child of a
\* Ship, a Release child and a None child.
C18_AllPenalties ==
    /\ \E c \in 1..(Len(session.all_nodes) - 1) :
          /\ NodeAt(session.all_nodes, c).action = Some("Press")
          /\ ParentOf(session.all_nodes, c).state.mode = "Cube"
          /\ NodeAt(session.all_nodes, c).g = ParentOf(session.all_nodes, c).g + 16 * Dt
    /\ \E sh \in 1..(Len(session.all_nodes) - 1) :
          /\ NodeAt(session.all_nodes, sh).action = Some("Press")
          /\ ParentOf(session.all_nodes, sh).state.mode = "Ship"
          /\ NodeAt(session.all_nodes, sh).g
                = ParentOf(session.all_nodes, sh).g + Dt + Dt \div 2
    /\ \E r \in 1..(Len(session.all_nodes) - 1) :
          /\ NodeAt(session.all_nodes, r).action = Some("Release")
          /\ NodeAt(session.all_nodes, r).g = ParentOf(session.all_nodes, r).g + Dt
    /\ \E n \in 1..(Len(session.all_nodes) - 1) :
          /\ NodeAt(session.all_nodes, n).action = Some("None")
          /\ NodeAt(session.all_nodes, n).g = ParentOf(session.all_nodes, n).g + Dt

\* Whether path is run-length encoded the way the claim says: no two None
\* entries in a row, and every Press or Release entry of duration dt.
Encoded(path) ==
    /\ \A k \in 1..(Len(path) - 1) : ~(path[k][1] = "None" /\ path[k + 1][1] = "None")
    /\ \A k \in 1..Len(path) : path[k][1] \in {"Press", "Release"} => path[k][2] = Dt

\* C19: reconstruct_path returns the empty list for the root; for every node
\* a step appends it returns a list that is not empty, has no two
\* consecutive None entries, and whose Press and Release entries each have
\* duration exactly dt.
C19_RunLengthEncoding ==
    /\ reconstruct_path(session.all_nodes, NodeAt(session.all_nodes, 0)) = <<>>
    /\ [][\A i \in FreshNodes :
             \A p \in {reconstruct_path(session'.all_nodes, NodeAt(session'.all_nodes, i))} :
                p /= <<>> /\ Encoded(p)]_vars

\* C19, witness: the list for the node appended last has a None run of
\* several ticks, a Press right after it, and a Release later on.
C19_RunsAndPresses ==
    /\ Len(session.all_nodes) >= 2
    /\ \E p \in {reconstruct_path(session.all_nodes, Last(session.all_nodes))} :
          \E k \in 1..(Len(p) - 1) :
              /\ p[k][1] = "None" /\ p[k][2] >= 2 * Dt
              /\ p[k + 1] = <<"Press", Dt>>
              /\ \E j \in (k + 2)..Len(p) : p[j] = <<"Release", Dt>>

\* Replaying the list reconstruct_path returns for the node at e, from the
\* start state and under the pathfinder of the search, takes as many ticks
\* as the node is deep and ends in the state stored at the node.
RoundTrip(nodes, e) ==
    \A actions \in {reconstruct_path(nodes, NodeAt(nodes, e))} :
        /\ Replay(pathfinder, StartState(start_pos), actions, 1, Len(actions))
              = NodeAt(nodes, e).state
        /\ PlayedStates(actions, 1, Len(actions)) = Depth(nodes, e)

\* C20: the replay round trip holds for the node a step ends the search at,
\* and for every Press and Release child a step appends.
C20_ReplayRoundTrip ==
    [][/\ session.goal_reached_index = None /\ session'.goal_reached_index /= None
             => RoundTrip(session'.all_nodes, session'.goal_reached_index[1])
       /\ \A i \in FreshNodes :
             NodeAt(session'.all_nodes, i).action /= Some("None")
                => RoundTrip(session'.all_nodes, i)]_vars

\* C20, witness: the search has ended at a node whose list holds a None run
\* of several ticks, a Press after it and a None run after the Press.
C20_EndedAfterPress ==
    /\ session.goal_reached_index /= None
    /\ \E p \in {reconstruct_path(session.all_nodes,
                                  NodeAt(session.all_nodes, session.goal_reached_index[1]))} :
          \E i \in 1..(Len(p) - 2) :
              /\ p[i][1] = "None" /\ p[i][2] >= 2 * Dt
              /\ p[i + 1] = <<"Press", Dt>>
              /\ p[i + 2][1] = "None"

(***************************************************************************)
(* The flat empty course: zero objects, goal_x = 500, the default physics, *)
(* the start position the program uses; a caller that calls step_single    *)
(* until it returns true.                                                  *)
(***************************************************************************)
FlatGoal == 500 * Unit

FlatInit ==
    \E search \in {DefaultSearch, UnitWeightSearch} :
        /\ pathfinder = with_config(<<>>, [physics |-> DefaultPhysics, search |-> search])
        /\ start_pos = Vec2(0, 15 * Unit)
        /\ goal_x = FlatGoal
        /\ session = start_search(pathfinder, start_pos, goal_x)
        /\ pc = "caller"
        /\ call = "start_search"
        /\ ret = FALSE
        /\ hist = [pops |-> <<>>, expanded |-> <<>>, progress_at |-> 0]
        /\ VizIdle
        /\ args = <<>>

\* The caller calls step_single again, as long as it has not returned true.
FlatStepSingle ==
    /\ pc = "caller"
    /\ ~ret
    /\ \E r \in {step_single(pathfinder, session, goal_x)} :
           /\ session' = r.session
           /\ ret' = r.ret
           /\ hist' = Track(pathfinder, hist, session, r)
    /\ call' = "step_single"
    /\ UNCHANGED <<pathfinder, start_pos, goal_x, pc>>
    /\ UNCHANGED <<viz, args>>

FlatNext == FlatStepSingle

FlatSpec == FlatInit /\ [][FlatNext]_vars

\* dist / speed in cost units (Dt per tick), rounded down: dist in
\* milli-units, speed in milli-units per second.
TimeToCover(dist, speed, tps) ==
    ((dist * tps) \div speed) * Dt + ((((dist * tps) % speed) * Dt) \div speed)

\* The search has ended at a node at or past the goal whose reconstructed
\* path is a single None entry that lasts dist / player_speeds[tier] to
\* within one dt.
FlatPathAtTier(tier) ==
    /\ session.goal_reached_index /= None
    /\ NodeAt(session.all_nodes, session.goal_reached_index[1]).state.position.x >= goal_x
    /\ \E p \in {reconstruct_path(session.all_nodes,
                                  NodeAt(session.all_nodes, session.goal_reached_index[1]))} :
          /\ Len(p) = 1
          /\ p[1][1] = "None"
          /\ Abs(p[1][2] - TimeToCover(goal_x - start_pos.x,
                                       pathfinder.config.physics.player_speeds[tier + 1],
                                       pathfinder.config.physics.tps)) <= Dt

\* The search is still running and has popped no more nodes than the ticks
\* dist / player_speeds[tier] take, one more at most: every further call
\* pops a node, so only so many calls can follow before one returns true.
FlatSearching(tier) ==
    /\ session.goal_reached_index = None
    /\ session.open_set /= {}
    /\ session.nodes_expanded * Dt
          <= TimeToCover(goal_x - start_pos.x,
                         pathfinder.config.physics.player_speeds[tier + 1],
                         pathfinder.config.physics.tps) + Dt

BatchSize == 100

\* let update_interval = 1000
UpdateInterval == 1000

\* max_x over the objects' right edges, from 0.
MaxRight(objects) ==
    SetMax({0} \cup {objects[i].position.x + objects[i].width \div 2 : i \in DOMAIN objects})

\* The levels the visualizer is run on: nothing, and a wall that stops the cube.
VizLevels == {<<>>, <<Wall("Solid", 16 * Unit)>>}

\* SearchMessage::Stopped with the path to the last node of the arena.
StoppedMessage_last(pf, s) ==
    [ type |-> "Stopped",
      actions |-> reconstruct_path(s.all_nodes, NodeAt(s.all_nodes, Len(s.all_nodes) - 1)),
      best_x |-> s.best_x,
      nodes_expanded |-> s.nodes_expanded ]

\* SearchMessage::Stopped as the search thread builds it.
StoppedMessage(pf, s) ==
    [ type |-> "Stopped",
      actions |-> reconstruct_path(s.all_nodes, NodeAt(s.all_nodes, s.best_x_index)),
      best_x |-> s.best_x,
      nodes_expanded |-> s.nodes_expanded ]

\* The message sent when step_single has returned true.
FinalMessage(pf, s) ==
    IF s.goal_reached_index /= None
    THEN [ type |-> "Done",
           actions |-> reconstruct_path(s.all_nodes,
                                        NodeAt(s.all_nodes, s.goal_reached_index[1])),
           best_x |-> s.best_x,
           nodes_expanded |-> s.nodes_expanded ]
    ELSE [ type |-> "NoSolution", best_x |-> s.best_x, nodes_expanded |-> s.nodes_expanded ]

\* SearchMessage::Progress: the positions from the root to best_x_index.
ProgressMessage(pf, s) ==
    [ type |-> "Progress",
      best_path |-> Reverse([k \in 1..(Depth(s.all_nodes, s.best_x_index) + 1) |->
                        IF k = 1 THEN NodeAt(s.all_nodes, s.best_x_index).state.position
                        ELSE NodeAt(s.all_nodes,
                                    NodeAt(s.all_nodes,
                                           Lineage(s.all_nodes, s.best_x_index,
                                                   Len(s.all_nodes)).met[k - 1]).parent_index[1]
                                   ).state.position]),
      best_x |-> s.best_x,
      nodes_expanded |-> s.nodes_expanded,
      open_set_size |-> Cardinality(s.open_set) ]

\* run_visualizer up to thread::spawn, and the thread's first statements.
VizInit ==
    \E objects \in VizLevels :
        /\ pathfinder = with_config(objects, DefaultConfig)
        /\ start_pos = Vec2(0, 15 * Unit)
        /\ goal_x = MaxRight(objects) + 200 * Unit
        /\ session = start_search(pathfinder, start_pos, goal_x)
        /\ pc = "driver_loop"
        /\ call = "start_search"
        /\ ret = FALSE
        /\ hist = [pops |-> <<>>, expanded |-> <<>>, progress_at |-> 0]
        /\ VizIdle
        /\ args = <<>>

\* The top of the thread's loop with the flag clear: a batch begins.
VizBatch ==
    /\ pc = "driver_loop"
    /\ ~stop_flag
    /\ driver' = [driver EXCEPT !.round = 0, !.done = FALSE]
    /\ pc' = "driver_batch"
    /\ UNCHANGED <<pathfinder, start_pos, goal_x, session, call, ret, hist>>
    /\ UNCHANGED <<stop_flag, tx, app, since_stop, args>>

\* The top of the thread's loop with the flag set: Stopped is sent and the
\* thread leaves the loop.
VizStopped ==
    /\ pc = "driver_loop"
    /\ stop_flag
    /\ tx' = Append(tx, StoppedMessage(pathfinder, session))
    /\ pc' = "driver_exit"
    /\ UNCHANGED <<pathfinder, start_pos, goal_x, session, call, ret, hist>>
    /\ UNCHANGED <<stop_flag, driver, app, since_stop, args>>

\* One round of the batch: step_single, steps_since_update += 1, and the
\* batch ends when step_single returned true or this was its last round.
VizStepSingle ==
    /\ pc = "driver_batch"
    /\ \E r \in {step_single(pathfinder, session, goal_x)} :
           /\ session' = r.session
           /\ ret' = r.ret
           /\ hist' = Track(pathfinder, hist, session, r)
           /\ driver' = [ round |-> driver.round + 1,
                          steps_since_update |-> driver.steps_since_update + 1,
                          done |-> r.ret ]
           /\ pc' = IF r.ret \/ driver.round + 1 = BatchSize
                    THEN "driver_update" ELSE "driver_batch"
    /\ call' = "step_single"
    /\ since_stop' = IF stop_flag THEN since_stop + 1 ELSE since_stop
    /\ UNCHANGED <<pathfinder, start_pos, goal_x, stop_flag, tx, app, args>>

\* VizUpdate without the break after Done or NoSolution: the thread goes
\* back to the top of its loop.
VizUpdate_goes_on ==
    /\ pc = "driver_update"
    /\ IF driver.steps_since_update >= UpdateInterval \/ driver.done
       THEN /\ driver' = [driver EXCEPT !.steps_since_update = 0]
            /\ tx' = Append(tx, IF driver.done THEN FinalMessage(pathfinder, session)
                                ELSE ProgressMessage(pathfinder, session))
       ELSE UNCHANGED <<driver, tx>>
    /\ pc' = "driver_loop"
    /\ UNCHANGED <<pathfinder, start_pos, goal_x, session, call, ret, hist>>
    /\ UNCHANGED <<stop_flag, app, since_stop, args>>

\* After the batch: Done or NoSolution and out of the loop when the search
\* is over, Progress every update_interval calls, and back to the top.
VizUpdate ==
    /\ pc = "driver_update"
    /\ IF driver.steps_since_update >= UpdateInterval \/ driver.done
       THEN /\ driver' = [driver EXCEPT !.steps_since_update = 0]
            /\ IF driver.done
               THEN /\ tx' = Append(tx, FinalMessage(pathfinder, session))
                    /\ pc' = "driver_exit"
               ELSE /\ tx' = Append(tx, ProgressMessage(pathfinder, session))
                    /\ pc' = "driver_loop"
       ELSE /\ pc' = "driver_loop"
            /\ UNCHANGED <<driver, tx>>
    /\ UNCHANGED <<pathfinder, start_pos, goal_x, session, call, ret, hist>>
    /\ UNCHANGED <<stop_flag, app, since_stop, args>>

\* VisualizerApp::update, the key S while Computing: the flag is set.
VizPressS ==
    /\ app.viz_state = "Computing"
    /\ ~stop_flag
    /\ stop_flag' = TRUE
    /\ UNCHANGED <<pathfinder, start_pos, goal_x, session, pc, call, ret, hist>>
    /\ UNCHANGED <<driver, tx, app, since_stop, args>>

\* VisualizerApp::update, one message taken from the channel.
VizReceive ==
    /\ app.received < Len(tx)
    /\ app' = [ viz_state |-> CASE tx[app.received + 1].type \in {"Done", "Stopped"} -> "Playback"
                                [] tx[app.received + 1].type = "NoSolution" -> "NoSolution"
                                [] OTHER -> app.viz_state,
                received |-> app.received + 1,
                final_actions |-> IF tx[app.received + 1].type \in {"Done", "Stopped"}
                                  THEN Some(tx[app.received + 1].actions)
                                  ELSE app.final_actions ]
    /\ UNCHANGED <<pathfinder, start_pos, goal_x, session, pc, call, ret, hist>>
    /\ UNCHANGED <<stop_flag, driver, tx, since_stop, args>>

VizNext == VizBatch \/ VizStopped \/ VizStepSingle \/ VizUpdate \/ VizPressS \/ VizReceive

VizSpec == VizInit /\ [][VizNext]_vars

\* C22: once the stop flag is set the search thread calls step_single at most
\* 100 more times; at the top of its loop with the flag set, its next step
\* sends Stopped with the path reconstructed from best_x_index and leaves the
\* loop; after a batch that did not end the search it goes back to the top
\* without sending Done or NoSolution; and once out of the loop it neither
\* calls step_single nor sends anything.
C22_Cancellation ==
    [][ /\ since_stop' <= BatchSize
        /\ (stop_flag /\ pc = "driver_loop" /\ pc' /= pc)
             => /\ pc' = "driver_exit"
                /\ session' = session
                /\ Len(tx') = Len(tx) + 1
                /\ Last(tx').type = "Stopped"
                /\ Last(tx').actions
                     = reconstruct_path(session.all_nodes,
                                        NodeAt(session.all_nodes, session.best_x_index))
        /\ (stop_flag /\ pc = "driver_update" /\ ~driver.done /\ pc' /= pc)
             => /\ pc' = "driver_loop"
                /\ session' = session
                /\ \A k \in (Len(tx) + 1)..Len(tx') : tx'[k].type = "Progress"
        /\ pc = "driver_exit" => /\ pc' = pc /\ session' = session /\ tx' = tx
      ]_vars

\* C22 happens: the flag was set, a whole batch of 100 calls followed it
\* without ending the search, and Stopped has been sent.
C22_StoppedAfterFullBatch ==
    /\ stop_flag
    /\ since_stop = BatchSize
    /\ pc = "driver_exit"
    /\ tx /= <<>>
    /\ Last(tx).type = "Stopped"
    /\ session.goal_reached_index = None
    /\ session.open_set /= {}

(***************************************************************************)
(* Functions applied on their own: a caller that holds arguments in args   *)
(* and the results of the function in ret; no search is going on.          *)
(***************************************************************************)
\* The variables of the search and the visualizer, at rest.
NoSearch ==
    /\ pathfinder = with_config(<<>>, DefaultConfig)
    /\ start_pos = Vec2(0, 15 * Unit)
    /\ goal_x = 0
    /\ session = start_search(pathfinder, start_pos, goal_x)
    /\ pc = "caller"
    /\ hist = [pops |-> <<>>, expanded |-> <<>>, progress_at |-> 0]
    /\ VizIdle

rest == <<pathfinder, start_pos, goal_x, session, pc, hist, stop_flag, driver, tx, app, since_stop>>

\* (x, y, vy, ceiling) of the states keyed: a cube state; one in the same
\* quantization cells; one 0.2 further in x, across a cell boundary; one
\* whose four quotients are -1, all bits set; one under a ship ceiling.
KeyNumbers ==
    { <<900, 15200, 0, F32_MAX>>,
      <<400, 15900, 9000, F32_MAX>>,
      <<1100, 15200, 0, F32_MAX>>,
      <<-500, -500, -5000, -1000>>,
      <<900, 15200, 0, 255 * Unit>> }

\* The states keyed, with the given rotations and floors.
KeyStates(rotations, floors) ==
    { [ position |-> Vec2(n[1], n[2]), vy |-> n[3], on_ground |-> on_ground,
        rotation |-> rotation, mode |-> mode, gravity_flipped |-> gravity_flipped,
        floor |-> floor, ceiling |-> n[4], pressing |-> pressing, speed |-> speed ] :
        n \in KeyNumbers, on_ground \in BOOLEAN, gravity_flipped \in BOOLEAN,
        pressing \in BOOLEAN, mode \in {"Cube", "Ship"}, speed \in 0..4,
        rotation \in rotations, floor \in floors }

KeyInit ==
    /\ NoSearch
    /\ call = "none"
    /\ ret = <<>>
    /\ \E a \in KeyStates({0}, {0}) : args = <<a>>

\* StateKey::from_state applied to the state held and to another one, with
\* the default quantization steps.
KeyFromState ==
    /\ Len(args) = 1
    /\ \E b \in KeyStates({0, 90}, {0, 30 * Unit}) :
           /\ (b.rotation = 0) = (b.floor = 0)
           /\ args' = <<args[1], b>>
           /\ ret' = << packed(args[1], DefaultSearch.x_quant, DefaultSearch.y_quant,
                               DefaultSearch.vy_quant),
                        packed(b, DefaultSearch.x_quant, DefaultSearch.y_quant,
                               DefaultSearch.vy_quant) >>
    /\ call' = "from_state"
    /\ UNCHANGED rest

KeyNext == KeyFromState

KeySpec == KeyInit /\ [][KeyNext]_vars

\* C23: two states that differ in mode, gravity_flipped, on_ground, pressing
\* or speed (0..4) have different keys, whatever their other fields.
C23_KeySeparation ==
    call = "from_state"
    => ( ( \/ args[1].mode /= args[2].mode
           \/ args[1].gravity_flipped /= args[2].gravity_flipped
           \/ args[1].on_ground /= args[2].on_ground
           \/ args[1].pressing /= args[2].pressing
           \/ args[1].speed /= args[2].speed )
         => ret[1] /= ret[2] )

\* C23 happens: two states whose x, y, vy and ceiling fields have every bit
\* set, differing in on_ground only, have been keyed.
C23_FlagUnderFullFields ==
    /\ call = "from_state"
    /\ args[1].position.x < 0 /\ args[1].ceiling < 0
    /\ args[1].on_ground /= args[2].on_ground
    /\ args[2] = [args[1] EXCEPT !.on_ground = ~@]
    /\ ret[1] /= ret[2]

\* Whether a and b are equal but for x, y, vy, rotation and floor.
SameButPlace(a, b) ==
    /\ a.mode = b.mode /\ a.gravity_flipped = b.gravity_flipped
    /\ a.on_ground = b.on_ground /\ a.pressing = b.pressing
    /\ a.speed = b.speed /\ a.ceiling = b.ceiling

\* Whether x, y and vy of a and b lie in the same quantization cells.
SameCell(a, b, search) ==
    /\ a.position.x \div search.x_quant = b.position.x \div search.x_quant
    /\ a.position.y \div search.y_quant = b.position.y \div search.y_quant
    /\ a.vy \div search.vy_quant = b.vy \div search.vy_quant

\* C24, amended: two states whose x, y and vy lie in the same quantization
\* cells and which otherwise differ in rotation and floor only have the
\* same key; and two keys are equal exactly when the tuples the closed set
\* is indexed by are.
C24_SameCellSameKey ==
    call = "from_state"
    => /\ (SameButPlace(args[1], args[2]) /\ SameCell(args[1], args[2], DefaultSearch))
            => ret[1] = ret[2]
       /\ (ret[1] = ret[2])
            <=> ( from_state(args[1], DefaultSearch.x_quant, DefaultSearch.y_quant,
                             DefaultSearch.vy_quant)
                  = from_state(args[2], DefaultSearch.x_quant, DefaultSearch.y_quant,
                               DefaultSearch.vy_quant) )

\* C24 happens: two states 0.5 apart in x, 0.7 in y and 9 in vy, with
\* different rotations and floors, have got the same key.
C24_SubStepSameKey ==
    /\ call = "from_state"
    /\ args[1].position.x /= args[2].position.x
    /\ args[1].position.y /= args[2].position.y
    /\ args[1].vy /= args[2].vy
    /\ args[1].rotation /= args[2].rotation
    /\ args[1].floor /= args[2].floor
    /\ ret[1] = ret[2]

\* C24 as stated: two states less than a quantization step apart in x, y
\* and vy, otherwise differing in rotation and floor only, have the same key.
C24_SubStepStable ==
    call = "from_state"
    => ( ( /\ SameButPlace(args[1], args[2])
           /\ Abs(args[1].position.x - args[2].position.x) < DefaultSearch.x_quant
           /\ Abs(args[1].position.y - args[2].position.y) < DefaultSearch.y_quant
           /\ Abs(args[1].vy - args[2].vy) < DefaultSearch.vy_quant )
         => ret[1] = ret[2] )

(***************************************************************************)
(* SpatialGrid::new and SpatialGrid::query applied on their own.           *)
(***************************************************************************)
\* The objects filed: a block across the cell boundary x = 128, a wall
\* lying on its side, a saw whose left edge is on the boundary x = 128, and
\* a block left of x = 0.
GridObjects ==
    { GameObject(1, "Solid", "Rectangle", 120 * Unit, 15 * Unit, 30 * Unit, 30 * Unit, 0),
      GameObject(1, "Solid", "Rectangle", 300 * Unit, 200 * Unit, 30 * Unit, 600 * Unit, 90),
      GameObject(88, "Sawblade", "Circle", 144 * Unit, 128 * Unit, 32 * Unit, 32 * Unit, 0),
      GameObject(1, "Solid", "Rectangle", -10 * Unit, 15 * Unit, 30 * Unit, 30 * Unit, 0) }

\* The regions asked for: centres and sizes.
GridCentres ==
    { Vec2(x * Unit, y * Unit) : x \in {-30, 100, 113, 160, 400, 640}, y \in {15, 100, 143, 300} }

GridSizes == { <<30 * Unit, 30 * Unit>>, <<40 * Unit, 200 * Unit>> }

GridInit ==
    /\ \E a \in GridObjects, b \in GridObjects :
           pathfinder = with_config(IF a = b THEN <<a>> ELSE <<a, b>>, DefaultConfig)
    /\ start_pos = Vec2(0, 15 * Unit)
    /\ goal_x = 0
    /\ session = start_search(pathfinder, start_pos, goal_x)
    /\ pc = "caller"
    /\ hist = [pops |-> <<>>, expanded |-> <<>>, progress_at |-> 0]
    /\ VizIdle
    /\ call = "none"
    /\ ret = <<>>
    /\ args = <<>>

\* grid.query(position, width, height) on the Pathfinder's grid.
GridQuery ==
    /\ \E position \in GridCentres, size \in GridSizes :
           /\ args' = <<position, size[1], size[2]>>
           /\ ret' = query_items(pathfinder.grid, position, size[1], size[2])
    /\ call' = "query"
    /\ UNCHANGED rest

GridNext == GridQuery

GridSpec == GridInit /\ [][GridNext]_vars

\* The bounding box SpatialGrid::new takes for an object.
AABB(obj) ==
    IF obj.obb /= None
    THEN [ min_x |-> SetMin({obj.obb[1].corners[i].x : i \in 1..4}),
           max_x |-> SetMax({obj.obb[1].corners[i].x : i \in 1..4}),
           min_y |-> SetMin({obj.obb[1].corners[i].y : i \in 1..4}),
           max_y |-> SetMax({obj.obb[1].corners[i].y : i \in 1..4}) ]
    ELSE [ min_x |-> obj.position.x - obj.width \div 2,
           max_x |-> obj.position.x + obj.width \div 2,
           min_y |-> obj.position.y - obj.width \div 2,
           max_y |-> obj.position.y + obj.width \div 2 ]

\* Whether the box overlaps the region centred at position, edges included.
OverlapsRegion(box, position, width, height) ==
    /\ box.min_x <= position.x + width \div 2
    /\ position.x - width \div 2 <= box.max_x
    /\ box.min_y <= position.y + height \div 2
    /\ position.y - height \div 2 <= box.max_y

\* C25: every object whose bounding box overlaps the region asked for is
\* among the indices query yields, and no index is yielded twice.
C25_QueryComplete ==
    call = "query"
    => /\ \A i \in DOMAIN pathfinder.objects :
              OverlapsRegion(AABB(pathfinder.objects[i]), args[1], args[2], args[3])
              => \E k \in DOMAIN ret : ret[k] = i
       /\ \A k, l \in DOMAIN ret : ret[k] = ret[l] => k = l
       /\ {ret[k] : k \in DOMAIN ret} = query(pathfinder.grid, args[1], args[2], args[3])

\* C25 happens: a region in one cell has returned an object centred in the
\* next cell, filed under both, together with another object.
C25_FoundAcrossCells ==
    /\ call = "query"
    /\ Len(ret) = 2
    /\ \E k \in DOMAIN ret :
           /\ pathfinder.objects[ret[k]].position.x \div pathfinder.grid.cell_size
                 /= args[1].x \div pathfinder.grid.cell_size
           /\ OverlapsRegion(AABB(pathfinder.objects[ret[k]]), args[1], args[2], args[3])

\* vy after the Ship branch's acceleration, clamp to +-800 and quantization,
\* before the clamp into [floor, ceiling].
ShipVy(state, action, params) ==
    QuantizeVy(Clamp(state.vy * params.tps
                       + ShipAccel(CASE action = "Press" -> TRUE
                                     [] action = "Release" -> FALSE
                                     [] OTHER -> state.pressing,
                                   state.vy,
                                   Tier(params.ship_velocities, state.speed)
                                     * (IF state.gravity_flipped THEN -1 ELSE 1),
                                   IF state.gravity_flipped THEN -1 ELSE 1),
                     -800 * Unit * params.tps, 800 * Unit * params.tps),
               params.tps, params)

\* C26: every Ship node the search appends, the one made on the tick the
\* ShipPortal is entered included, has its centre within
\* [floor + player_height / 2, ceiling - player_height / 2]; and a Ship tick
\* changes vy to 0 at a wall only when vy pointed into that wall.
C26_ShipWithinBounds ==
    [][ \A i \in FreshNodes :
          \A n \in {NodeAt(session'.all_nodes, i)} :
            (n.state.mode = "Ship" /\ n.state.ceiling < F32_MAX \div 2)
            => /\ n.state.position.y
                    >= n.state.floor + pathfinder.config.physics.player_height \div 2
               /\ n.state.position.y
                    <= n.state.ceiling - pathfinder.config.physics.player_height \div 2
               /\ \A parent \in {NodeAt(session'.all_nodes, n.parent_index[1]).state} :
                    \A vy \in {ShipVy(parent, n.action[1], pathfinder.config.physics)} :
                      (parent.mode = "Ship" /\ n.state.vy /= vy)
                      => /\ n.state.vy = 0
                         /\ \/ vy > 0 /\ n.state.position.y
                                  = n.state.ceiling
                                      - pathfinder.config.physics.player_height \div 2
                            \/ vy < 0 /\ n.state.position.y
                                  = n.state.floor
                                      + pathfinder.config.physics.player_height \div 2
      ]_vars

(***************************************************************************)
(* Pathfinder::simulate_step applied tick after tick from the start state  *)
(* of start_search, with any action on each tick.                          *)
(***************************************************************************)
\* The most ticks followed in Ship mode after the tick of entry.
MaxShipTicks == 3

\* Where the play stops.
PlayGoal == 70 * Unit

\* A ship portal (id 13, 34 x 86) centred at (x, y).
ShipPortal(x, y) ==
    GameObject(13, "ShipPortal", "Rectangle", x, y, 34 * Unit, 86 * Unit, 0)

\* A gravity portal (id 11, 25 x 75) standing on the floor at x = 20, and a
\* slab over the course whose lower face is at y = 60.
UpsideDown ==
    << GameObject(11, "InverseGravityPortal", "Rectangle", 20 * Unit, 37 * Unit,
                  25 * Unit, 75 * Unit, 0),
       GameObject(1, "Solid", "Rectangle", 60 * Unit, 75 * Unit,
                  120 * Unit, 30 * Unit, 0) >>

\* The courses played: the ship portal of the scenario, a flat course with
\* short hops, and the upside-down course with short hops.
PlayLevels ==
    { [objects |-> <<ShipPortal(50 * Unit, 105 * Unit)>>, physics |-> DefaultPhysics],
      [objects |-> <<>>, physics |-> HopPhysics],
      [objects |-> UpsideDown, physics |-> HopPhysics] }

PlayInit ==
    /\ \E level \in PlayLevels :
           pathfinder = with_config(level.objects,
                                    [physics |-> level.physics, search |-> DefaultSearch])
    /\ start_pos = Vec2(0, 15 * Unit)
    /\ goal_x = PlayGoal
    /\ session = start_search(pathfinder, start_pos, goal_x)
    /\ pc = "caller"
    /\ hist = [ship_ticks |-> 0]
    /\ VizIdle
    /\ call = "start_search"
    /\ args = <<>>
    /\ ret = [physics |-> StartState(start_pos), state |-> StartState(start_pos)]

\* One tick: simulate_step on the state the last tick returned; ret keeps
\* what physics::simulate_step returned inside it as well.
PlayStep ==
    /\ ret.state.position.x < goal_x
    /\ hist.ship_ticks < MaxShipTicks
    /\ \E action \in {"None", "Press", "Release"} :
           /\ args' = <<ret.state, action>>
           /\ ret' = [ physics |-> physics_simulate_step(ret.state, action,
                                                         pathfinder.config.physics),
                       state |-> simulate_step(pathfinder, ret.state, action) ]
    /\ hist' = [ship_ticks |-> IF ret.state.mode = "Ship" THEN hist.ship_ticks + 1
                               ELSE hist.ship_ticks]
    /\ call' = "simulate_step"
    /\ UNCHANGED <<pathfinder, start_pos, goal_x, session, pc>>
    /\ UNCHANGED viz

PlayNext == PlayStep

PlaySpec == PlayInit /\ [][PlayNext]_vars

\* Whether the course played is the scenario's: one object, the ship portal.
PortalCourse == pathfinder.objects = <<ShipPortal(50 * Unit, 105 * Unit)>>

\* C27, amended: with a ShipPortal at (50, 105), every state in Ship mode
\* has floor = 0 and ceiling = 300 = floor + ship_bounds, the floor being on
\* the 30-unit grid; a state is in Ship mode once the hitbox has overlapped
\* the portal, and a state that has not is in Cube mode without bounds.
C27_PortalBounds ==
    (PortalCourse /\ call = "simulate_step")
    => /\ ret.state.mode = "Ship"
            => /\ ret.state.floor = 0
               /\ ret.state.ceiling = 300 * Unit
               /\ ret.state.ceiling = ret.state.floor + pathfinder.config.physics.ship_bounds
               /\ ret.state.floor % (30 * Unit) = 0
               /\ ~ret.state.on_ground
       /\ overlaps(PlayerOBB(ret.state.position, pathfinder.config.physics),
                   pathfinder.objects[1].obb[1])
            => ret.state.mode = "Ship"
       /\ (args[1].mode = "Cube" /\ ret.state.mode = "Ship")
            => overlaps(PlayerOBB(ret.state.position, pathfinder.config.physics),
                        pathfinder.objects[1].obb[1])
       /\ ret.state.mode = "Cube"
            => ret.state.floor = 0 /\ ret.state.ceiling = F32_MAX

\* C27 happens: the avatar is past x = 50 in Ship mode, and a tick in Ship
\* mode has been simulated after the tick of entry.
C27_PastPortalInShip ==
    /\ PortalCourse
    /\ call = "simulate_step"
    /\ ret.state.position.x > 50 * Unit
    /\ ret.state.mode = "Ship"
    /\ args[1].mode = "Ship"

\* C27 as stated: past x = 50 a state that went through the portal has
\* mode = Ship, ceiling = 255 and floor = ceiling - 300, on the 30-unit grid.
C27_Ceiling255 ==
    (PortalCourse /\ call = "simulate_step" /\ ret.state.position.x > 50 * Unit
       /\ ret.state.mode = "Ship")
    => /\ ret.state.ceiling = 255 * Unit
       /\ ret.state.floor = ret.state.ceiling - 300 * Unit
       /\ ret.state.floor % (30 * Unit) = 0

\* vy after a Cube tick that starts from velocity vy0: gravity for one
\* tick, then quantization.
CubeVy(state, vy0, params) ==
    QuantizeVy(vy0 * params.tps
                 + Tier(params.gravities, state.speed)
                     * (IF state.gravity_flipped THEN -1 ELSE 1),
               params.tps, params)

\* C28: in Cube mode a tick whose action is Press and whose state before
\* the step is on the ground starts from vy = jump_velocities[speed] * gm
\* and leaves the ground; every other tick, held button or not, starts from
\* the vy it had and keeps on_ground as it was.
C28_JumpOnlyOnPress ==
    (call = "simulate_step" /\ args[1].mode = "Cube")
    => IF args[2] = "Press" /\ args[1].on_ground
       THEN /\ ret.physics.vy
                 = CubeVy(args[1],
                          Tier(pathfinder.config.physics.jump_velocities, args[1].speed)
                            * (IF args[1].gravity_flipped THEN -1 ELSE 1),
                          pathfinder.config.physics)
            /\ ~ret.physics.on_ground
       ELSE /\ ret.physics.vy = CubeVy(args[1], args[1].vy, pathfinder.config.physics)
            /\ ret.physics.on_ground = args[1].on_ground

\* C28 happens: a tick with action None on the ground with the button held
\* has left the cube on the ground, after a jump that a Press had started.
C28_HeldOnGroundNoJump ==
    /\ call = "simulate_step"
    /\ args[1].mode = "Cube"
    /\ args[1].on_ground
    /\ args[1].pressing
    /\ args[2] = "None"
    /\ ret.physics.on_ground
    /\ ret.state.on_ground
    /\ ret.state.position.x > 5 * Unit

(***************************************************************************)
(* Pathfinder::simulate_step applied once to a Cube in the air next to a   *)
(* block: apply_landing_logic decides whether it lands.                    *)
(***************************************************************************)
\* A 30 x 30 block on the floor (top face at y = 30), and one hanging with
\* its lower face at y = 60; both span x = 45..75.
LandLevels ==
    { <<GameObject(1, "Solid", "Rectangle", 60 * Unit, 15 * Unit, 30 * Unit, 30 * Unit, 0)>>,
      <<GameObject(1, "Solid", "Rectangle", 60 * Unit, 75 * Unit, 30 * Unit, 30 * Unit, 0)>> }

\* How far outside the block's face the feet are before the step.
LandOffsets == {-3000, -1500, 500, 3000, 8000}

\* The speed away from the block's face before the step.
LandSpeeds == {-900000, -400000, -50000, 0, 200000}

LandXs == {32 * Unit, 35 * Unit, 44 * Unit, 60 * Unit}

\* The cube before the step: over the block on the floor with normal
\* gravity, under the hanging one with gravity flipped.
LandInit ==
    /\ \E objects \in LandLevels, x \in LandXs, d \in LandOffsets, v \in LandSpeeds :
           /\ pathfinder = with_config(objects, DefaultConfig)
           /\ args = << [ StartState(Vec2(0, 0)) EXCEPT
                            !.position = IF objects[1].position.y > 30 * Unit
                                         THEN Vec2(x, 60 * Unit - d - 15 * Unit)
                                         ELSE Vec2(x, 30 * Unit + d + 15 * Unit),
                            !.vy = IF objects[1].position.y > 30 * Unit THEN -v ELSE v,
                            !.gravity_flipped = objects[1].position.y > 30 * Unit,
                            !.on_ground = FALSE ] >>
    /\ start_pos = Vec2(0, 15 * Unit)
    /\ goal_x = 0
    /\ session = start_search(pathfinder, start_pos, goal_x)
    /\ pc = "caller"
    /\ hist = [pops |-> <<>>, expanded |-> <<>>, progress_at |-> 0]
    /\ VizIdle
    /\ call = "none"
    /\ ret = <<>>

\* simulate_step on the cube held, with any action.
LandStep ==
    /\ Len(args) = 1
    /\ \E action \in {"None", "Press", "Release"} :
           /\ args' = <<args[1], action>>
           /\ ret' = [ physics |-> physics_simulate_step(args[1], action,
                                                         pathfinder.config.physics),
                       state |-> simulate_step(pathfinder, args[1], action) ]
    /\ call' = "simulate_step"
    /\ UNCHANGED rest

LandNext == LandStep

LandSpec == LandInit /\ [][LandNext]_vars

\* The y of the player's feet: the lower edge, or the upper one when flipped.
Feet(state, params) ==
    IF state.gravity_flipped THEN state.position.y + params.player_height \div 2
    ELSE state.position.y - params.player_height \div 2

\* 1: the horizontal overlap is at least half the narrower of the two.
SufficientOverlap(next, obj, params) ==
    2 * Max(Min(next.position.x + params.player_width \div 2,
                obj.position.x + obj.width \div 2)
              - Max(next.position.x - params.player_width \div 2,
                    obj.position.x - obj.width \div 2), 0)
      >= Min(params.player_width, obj.width)

\* 2: the feet were outside the face, or at most 2 units inside it.
FromOutside(prev, next, obj, params) ==
    IF next.gravity_flipped
    THEN Feet(prev, params) <= obj.position.y - obj.height \div 2 + 2 * Unit
    ELSE Feet(prev, params) >= obj.position.y + obj.height \div 2 - 2 * Unit

\* 3: vy points toward the face, or is zero.
TowardSurface(next) == IF next.gravity_flipped THEN next.vy >= 0 ELSE next.vy <= 0

\* 4 as the code has it: the feet are between the far face of the object
\* and 5 units outside the near one.
WithinObject(next, obj, params) ==
    IF next.gravity_flipped
    THEN /\ Feet(next, params) >= obj.position.y - obj.height \div 2 - 5 * Unit
         /\ Feet(next, params) <= obj.position.y + obj.height \div 2
    ELSE /\ Feet(next, params) <= obj.position.y + obj.height \div 2 + 5 * Unit
         /\ Feet(next, params) >= obj.position.y - obj.height \div 2

\* 4 as stated: the feet are within 5 units of the near face.
NearSurface(next, obj, params) ==
    IF next.gravity_flipped
    THEN Abs(Feet(next, params) - (obj.position.y - obj.height \div 2)) <= 5 * Unit
    ELSE Abs(Feet(next, params) - (obj.position.y + obj.height \div 2)) <= 5 * Unit

\* Whether the state stands on the object: on the ground, still, upright,
\* its feet 0.001 outside the near face.
SnappedOnto(state, obj, params) ==
    /\ state.on_ground
    /\ state.vy = 0
    /\ state.rotation = 0
    /\ Feet(state, params) = IF state.gravity_flipped
                             THEN obj.position.y - obj.height \div 2 - 1
                             ELSE obj.position.y + obj.height \div 2 + 1

\* C29, amended: a step leaves the cube on the ground anywhere but on the
\* floor only by snapping it onto the block, and only if the overlap is
\* sufficient, the feet came from outside, vy points toward the face, and
\* the new feet are between the far face and 5 units outside the near one.
C29_LandingConditions ==
    (call = "simulate_step" /\ ret.state.on_ground
       /\ ret.state.position.y /= pathfinder.config.physics.player_height \div 2)
    => /\ SnappedOnto(ret.state, pathfinder.objects[1], pathfinder.config.physics)
       /\ SufficientOverlap(ret.physics, pathfinder.objects[1], pathfinder.config.physics)
       /\ FromOutside(args[1], ret.physics, pathfinder.objects[1], pathfinder.config.physics)
       /\ TowardSurface(ret.physics)
       /\ WithinObject(ret.physics, pathfinder.objects[1], pathfinder.config.physics)

\* C29 happens: a cube whose feet were 0.5 outside the face has been
\* snapped onto the block from inside it.
C29_SnappedFromInside ==
    /\ call = "simulate_step"
    /\ SnappedOnto(ret.state, pathfinder.objects[1], pathfinder.config.physics)
    /\ ~args[1].on_ground
    /\ ret.physics.position.y /= ret.state.position.y
    /\ Abs(Feet(args[1], pathfinder.config.physics) - Feet(ret.state, pathfinder.config.physics))
         < Unit

\* C29 as stated: a cube is snapped onto the block only if, besides the
\* other three conditions, the new feet are within 5 units of the face.
C29_LandingWithinFive ==
    (call = "simulate_step" /\ ret.state.on_ground
       /\ ret.state.position.y /= pathfinder.config.physics.player_height \div 2)
    => /\ SnappedOnto(ret.state, pathfinder.objects[1], pathfinder.config.physics)
       /\ SufficientOverlap(ret.physics, pathfinder.objects[1], pathfinder.config.physics)
       /\ FromOutside(args[1], ret.physics, pathfinder.objects[1], pathfinder.config.physics)
       /\ TowardSurface(ret.physics)
       /\ NearSurface(ret.physics, pathfinder.objects[1], pathfinder.config.physics)

(***************************************************************************)
(* The command line (redox-cli main.rs): start_search, a loop around       *)
(* Pathfinder::step, the choice of the node to replay, reconstruct_path.   *)
(***************************************************************************)
\* max_x over the objects' centres, from 0.
MaxCentre(objects) == SetMax({0} \cup {objects[i].position.x : i \in DOMAIN objects})

\* The levels the command line is run on: nothing, and a wall that stops
\* the cube.
MainLevels == {<<>>, <<Wall("Solid", 16 * Unit)>>}

\* The fallback's test: node is more than 0.1 further than the best so far,
\* or within 0.1 of it and cheaper.
Better(node, best_node) ==
    IF node.state.position.x > best_node.state.position.x + Unit \div 10 THEN TRUE
    ELSE IF Abs(node.state.position.x - best_node.state.position.x) < Unit \div 10
         THEN node.g < best_node.g
         ELSE FALSE

\* The fallback's loop over all_nodes from index i on; best_i so far.
RECURSIVE FurthestFrom(_, _, _)
FurthestFrom(nodes, i, best_i) ==
    IF i >= Len(nodes) THEN best_i
    ELSE FurthestFrom(nodes, i + 1,
                      IF Better(NodeAt(nodes, i), NodeAt(nodes, best_i)) THEN i ELSE best_i)

\* chosen_idx.
Chosen(s) ==
    IF s.goal_reached_index /= None THEN s.goal_reached_index[1]
    ELSE FurthestFrom(s.all_nodes, 0, 0)

\* main up to the loop.
MainInit ==
    /\ \E objects \in MainLevels :
           /\ pathfinder = with_config(objects, DefaultConfig)
           /\ goal_x = MaxCentre(objects) + 200 * Unit
    /\ start_pos = Vec2(0, 15 * Unit)
    /\ session = start_search(pathfinder, start_pos, goal_x)
    /\ pc = "main_loop"
    /\ call = "start_search"
    /\ ret = FALSE
    /\ hist = [pops |-> <<>>, expanded |-> <<>>, progress_at |-> 0]
    /\ VizIdle
    /\ args = <<>>

\* The top of main's loop: pathfinder.step is called.
MainCall ==
    /\ pc = "main_loop"
    /\ pc' = "main_step"
    /\ call' = "step"
    /\ UNCHANGED <<pathfinder, start_pos, goal_x, session, ret, hist>>
    /\ UNCHANGED <<viz, args>>

\* One turn of step's loop; when step_single returns true, step returns
\* true, done is true and main breaks out of its loop.
MainStepLoop ==
    /\ pc = "main_step"
    /\ session.open_set /= {}
    /\ \E r \in {step_single(pathfinder, session, goal_x)} :
           /\ session' = r.session
           /\ hist' = Track(pathfinder, hist, session, r)
           /\ IF r.ret THEN ret' = TRUE /\ pc' = "main_chosen"
                       ELSE UNCHANGED <<ret, pc>>
    /\ UNCHANGED <<pathfinder, start_pos, goal_x, call>>
    /\ UNCHANGED <<viz, args>>

\* step's loop ends on an empty open set: step returns false, done is
\* false and main goes around its loop.
MainStepExhausted ==
    /\ pc = "main_step"
    /\ session.open_set = {}
    /\ ret' = FALSE
    /\ pc' = "main_loop"
    /\ UNCHANGED <<pathfinder, start_pos, goal_x, session, call, hist>>
    /\ UNCHANGED <<viz, args>>

\* After the loop: chosen_idx, and the path handed to save_gdr.
MainChoose ==
    /\ pc = "main_chosen"
    /\ args' = [ chosen_idx |-> Chosen(session),
                 path |-> reconstruct_path(session.all_nodes,
                                           NodeAt(session.all_nodes, Chosen(session))) ]
    /\ call' = "save_gdr"
    /\ pc' = "main_exit"
    /\ UNCHANGED <<pathfinder, start_pos, goal_x, session, ret, hist>>
    /\ UNCHANGED viz

MainNext == MainCall \/ MainStepLoop \/ MainStepExhausted \/ MainChoose

MainSpec == MainInit /\ [][MainNext]_vars

\* main is one thread that runs whenever it can take a step: weak fairness
\* of each of its steps.  A turn of step's loop is enabled exactly when
\* pc = "main_step" with a non-empty open set and always changes the session
\* (it pops a node); choosing the node is enabled exactly when
\* pc = "main_chosen" and leaves that position.  Their fairness is written
\* out in these terms.
MainFair ==
    /\ WF_vars(MainCall)
    /\ WF_vars(MainStepExhausted)
    /\ ( \/ []<>(pc /= "main_step" \/ session.open_set = {})
         \/ []<><<session' /= session>>_vars )
    /\ []<>(pc /= "main_chosen")

MainLive == MainSpec /\ MainFair

\* C30: once the open set is exhausted with goal_reached_index = None,
\* main's loop around Pathfinder::step is left and main goes on to choose a
\* node and hand its path to save_gdr.
C30_LoopExits ==
    (session.open_set = {} /\ session.goal_reached_index = None)
        ~> (pc = "main_exit")

(***************************************************************************)
(* A caller that calls step_single again and again, also after it has      *)
(* returned true: pc = "step_single" inside a call, "done" after a call    *)
(* that returned true.                                                     *)
(***************************************************************************)
\* The calls counted after the one that returned true.
MaxLaterCalls == 2

\* The levels searched, each with its goal.
TermLevels ==
    { [objects |-> <<>>, goal |-> 80 * Unit],
      [objects |-> <<Wall("Solid", 21 * Unit)>>, goal |-> 80 * Unit],
      [objects |-> <<Overhang(2, 16 * Unit), Wall("Hazard", 22 * Unit)>>, goal |-> 40 * Unit],
      [objects |-> <<TallShipPortal(20 * Unit)>>, goal |-> 40 * Unit],
      [objects |-> <<TallShipPortal(20 * Unit), Wall("Hazard", 26 * Unit)>>,
       goal |-> 40 * Unit] }

\* The stagnation check as good as disabled (the default interval), and
\* enabled with an interval of 4 expansions.
TermSearches ==
    { DefaultSearch,
      [DefaultSearch EXCEPT !.stagnation_check_interval = 4] }

TermInit ==
    /\ \E level \in TermLevels, search \in TermSearches :
           /\ pathfinder = with_config(level.objects,
                                       [physics |-> DefaultPhysics, search |-> search])
           /\ goal_x = level.goal
    /\ start_pos = Vec2(0, 15 * Unit)
    /\ session = start_search(pathfinder, start_pos, goal_x)
    /\ pc = "caller"
    /\ call = "start_search"
    /\ ret = FALSE
    /\ hist = [ search |-> [pops |-> <<>>, expanded |-> <<>>, progress_at |-> 0],
                later_calls |-> 0 ]
    /\ VizIdle
    /\ args = <<>>

\* The caller enters step_single.
TermCall ==
    /\ pc \in {"caller", "done"}
    /\ pc' = "step_single"
    /\ call' = "step_single"
    /\ UNCHANGED <<pathfinder, start_pos, goal_x, session, ret, hist>>
    /\ UNCHANGED <<viz, args>>

\* step_single runs and returns; hist.later_calls counts, up to
\* MaxLaterCalls, the calls that return after one has returned true.
TermReturn ==
    /\ pc = "step_single"
    /\ \E r \in {step_single(pathfinder, session, goal_x)} :
           /\ session' = r.session
           /\ ret' = r.ret
           /\ hist' = [ search |-> Track(pathfinder, hist.search, session, r),
                        later_calls |-> IF ret THEN Min(hist.later_calls + 1, MaxLaterCalls)
                                        ELSE hist.later_calls ]
           /\ pc' = IF r.ret THEN "done" ELSE "caller"
    /\ UNCHANGED <<pathfinder, start_pos, goal_x, call>>
    /\ UNCHANGED <<viz, args>>

TermNext == TermCall \/ TermReturn

TermSpec == TermInit /\ [][TermNext]_vars

\* The caller is one thread that goes on whenever it can: weak fairness of
\* both steps.  A call that has been entered can always return and then
\* leaves pc = "step_single", which is how its fairness is written.
TermFair ==
    /\ WF_vars(TermCall)
    /\ []<>(pc /= "step_single")

TermLive == TermSpec /\ TermFair

\* The x of the node at idx after the step.
XAfter(idx) == NodeAt(session'.all_nodes, idx).state.position.x

C32_Absorbing ==
    [][ (pc = "step_single" /\ ret)
          => /\ ret'
             /\ pc' = "done"
             /\ session' = session
      ]_vars

\* C32 happens: two calls have returned after the one that ended the search
\* on a goal node, with entries left in the open set.
C32_CalledAfterGoal ==
    /\ pc = "done"
    /\ hist.later_calls >= 2
    /\ session.goal_reached_index /= None
    /\ NodeAt(session.all_nodes, session.goal_reached_index[1]).state.position.x >= goal_x
    /\ session.open_set /= {}

\* The StateKey of the node at idx after this step.
KeyAfter(idx) ==
    from_state(NodeAt(session'.all_nodes, idx).state, pathfinder.config.search.x_quant,
               pathfinder.config.search.y_quant, pathfinder.config.search.vy_quant)

\* The g of the nodes with key k among those expanded up to and in this step.
ExpandedCosts(k) ==
    { NodeAt(session'.all_nodes, hist'.search.expanded[j]).g :
        j \in { j \in DOMAIN hist'.search.expanded :
                  /\ XAfter(hist'.search.expanded[j]) < goal_x
                  /\ KeyAfter(hist'.search.expanded[j]) = k } }

\* C33: over a run the value the closed map stores for a StateKey never
\* increases, and it equals the minimum g among the expanded (non-pruned)
\* nodes with that key.
C33_ClosedMapBest ==
    [][ /\ \A k \in DOMAIN session.closed_set :
             session'.closed_set[k] <= session.closed_set[k]
        /\ \A k \in DOMAIN session'.closed_set :
             /\ ExpandedCosts(k) /= {}
             /\ session'.closed_set[k] = SetMin(ExpandedCosts(k))
      ]_vars

\* The search thread runs whenever it can: weak fairness of the thread as a
\* whole.  It can take a step unless it has left its loop, and each of its
\* steps changes pc or its locals, which is how the fairness is written.
VizFair ==
    \/ []<>(pc = "driver_exit")
    \/ []<><<pc' /= pc \/ driver' /= driver>>_vars

VizLive == VizSpec /\ VizFair

\* The positions in the channel that hold a terminal message.
Terminals(msgs) == {k \in DOMAIN msgs : msgs[k].type \in {"Done", "Stopped", "NoSolution"}}

\* C34: the search thread sends at most one of Done, Stopped and
\* NoSolution, nothing after it, and it does send one in the end, also when
\* the stop flag is set while the batch that ends the search is running;
\* viz_state, once it has left Computing, stays as it is, and final_actions
\* is set whenever viz_state is Playback.
C34_OneTerminalMessage ==
    /\ [](/\ Terminals(tx) \subseteq {Len(tx)}
          /\ Terminals(tx) /= {} <=> pc = "driver_exit"
          /\ app.viz_state = "Playback" => app.final_actions /= None)
    /\ [][ /\ Terminals(tx) /= {} => tx' = tx
           /\ app.viz_state /= "Computing" => app'.viz_state = app.viz_state
         ]_vars
    /\ <>(Terminals(tx) /= {})

\* C34 happens: the stop flag was set during the batch in which step_single
\* returned true; Done is the one terminal message sent, and the
\* application has received it and is in Playback.
C34_StopRacedWithDone ==
    /\ stop_flag
    /\ since_stop >= 1
    /\ pc = "driver_exit"
    /\ Last(tx).type = "Done"
    /\ Cardinality(Terminals(tx)) = 1
    /\ app.received = Len(tx)
    /\ app.viz_state = "Playback"

(***************************************************************************)
(* Pathfinder::simulate_step applied tick after tick on courses whose      *)
(* portals overlap one another.                                            *)
(***************************************************************************)
\* A cube portal (id 12, 34 x 86) stretched to seven times its height; its
\* centre is at (left + 17, 300).
TallCubePortal(left) ==
    GameObject(12, "CubePortal", "Rectangle", left + 17 * Unit, 300 * Unit,
               34 * Unit, 602 * Unit, 0)

\* The courses: a ship portal with a cube portal 2 units behind it, the two
\* the other way round, and a ship portal near the floor with a gravity
\* portal (id 11, 25 x 75) inside it.
PortalLevels ==
    { <<TallShipPortal(20 * Unit), TallCubePortal(22 * Unit)>>,
      <<TallCubePortal(20 * Unit), TallShipPortal(22 * Unit)>>,
      <<ShipPortal(37 * Unit, 45 * Unit),
        GameObject(11, "InverseGravityPortal", "Rectangle", 33 * Unit, 45 * Unit,
                   25 * Unit, 75 * Unit, 0)>> }

PortalInit ==
    /\ \E objects \in PortalLevels : pathfinder = with_config(objects, DefaultConfig)
    /\ start_pos = Vec2(0, 15 * Unit)
    /\ goal_x = PlayGoal
    /\ session = start_search(pathfinder, start_pos, goal_x)
    /\ pc = "caller"
    /\ hist = [ship_ticks |-> 0]
    /\ VizIdle
    /\ call = "start_search"
    /\ args = <<>>
    /\ ret = [physics |-> StartState(start_pos), state |-> StartState(start_pos)]

PortalSpec == PortalInit /\ [][PlayNext]_vars

\* The objects of the course whose box overlaps the player's at position.
Overlapped(position) ==
    { i \in DOMAIN pathfinder.objects :
        /\ pathfinder.objects[i].obb /= None
        /\ overlaps(PlayerOBB(position, pathfinder.config.physics),
                    pathfinder.objects[i].obb[1]) }

\* C35: the start state and every state simulate_step returns has, in Cube
\* mode, floor = 0 and no ceiling, and in Ship mode a finite ceiling =
\* floor + ship_bounds over a floor >= 0 that is a multiple of 30, also on a
\* tick on which the player overlaps several portals.
C35_ModeAndBounds ==
    IF ret.state.mode = "Cube"
    THEN ret.state.floor = 0 /\ ret.state.ceiling = F32_MAX
    ELSE /\ ret.state.mode = "Ship"
         /\ ret.state.ceiling < F32_MAX
         /\ ret.state.ceiling = ret.state.floor + pathfinder.config.physics.ship_bounds
         /\ ret.state.floor >= 0
         /\ ret.state.floor % (30 * Unit) = 0

\* C35 happens: a ship between its bounds has overlapped a ship portal and a
\* cube portal on one tick and has come out of it in Cube mode.
C35_TwoPortalsAtOnce ==
    /\ call = "simulate_step"
    /\ args[1].mode = "Ship"
    /\ args[1].floor = 120 * Unit
    /\ ret.state.mode = "Cube"
    /\ \E i, j \in Overlapped(ret.state.position) :
          /\ pathfinder.objects[i].object_type = "ShipPortal"
          /\ pathfinder.objects[j].object_type = "CubePortal"

\* C36: the start state and every state simulate_step returns that is
\* on_ground is in Cube mode with vy = 0; a state in Ship mode is never
\* on_ground.
C36_GroundedIsStillCube ==
    /\ ret.state.on_ground => ret.state.mode = "Cube" /\ ret.state.vy = 0
    /\ ret.state.mode = "Ship" => ~ret.state.on_ground

\* C36 happens: a cube under reversed gravity has come up against the slab
\* with vy > 0 and has been put on it, on_ground with vy = 0.
C36_LandedUpsideDown ==
    /\ call = "simulate_step"
    /\ ret.state.gravity_flipped
    /\ ~args[1].on_ground
    /\ ret.physics.vy > 0
    /\ ret.state.on_ground
    /\ ret.state.mode = "Cube"

\* Whether the player at position overlaps an object of one of the types.
OverlapsOneOf(position, types) ==
    \E i \in Overlapped(position) : pathfinder.objects[i].object_type \in types

\* C37: physics::simulate_step returns mode, gravity_flipped, floor, ceiling
\* and speed as it was given them; after the whole tick the mode differs
\* only if the player at its new position overlaps a portal of the new
\* mode, the bounds only if it overlaps a ship or a cube portal, gravity
\* only if it overlaps a gravity portal of the new direction; and the speed
\* is that of the start state.
C37_FrameOfTick ==
    call = "simulate_step"
    => /\ ret.physics.mode = args[1].mode
       /\ ret.physics.gravity_flipped = args[1].gravity_flipped
       /\ ret.physics.floor = args[1].floor
       /\ ret.physics.ceiling = args[1].ceiling
       /\ ret.physics.speed = args[1].speed
       /\ ret.state.mode /= args[1].mode
            => OverlapsOneOf(ret.state.position,
                             {IF ret.state.mode = "Ship" THEN "ShipPortal" ELSE "CubePortal"})
       /\ (ret.state.floor /= args[1].floor \/ ret.state.ceiling /= args[1].ceiling)
            => OverlapsOneOf(ret.state.position, {"ShipPortal", "CubePortal"})
       /\ ret.state.gravity_flipped /= args[1].gravity_flipped
            => OverlapsOneOf(ret.state.position,
                             {IF ret.state.gravity_flipped THEN "InverseGravityPortal"
                              ELSE "NormalGravityPortal"})
       /\ ret.state.speed = StartState(start_pos).speed

\* C37 happens: on one tick a ship inside a ship portal has reached the
\* gravity portal; gravity is reversed, mode and bounds are as before.
C37_GravityAloneChanged ==
    /\ call = "simulate_step"
    /\ args[1].mode = "Ship"
    /\ ~args[1].gravity_flipped
    /\ ret.state.gravity_flipped
    /\ ret.state.mode = "Ship"
    /\ ret.state.floor = args[1].floor
    /\ ret.state.ceiling = args[1].ceiling
    /\ OverlapsOneOf(ret.state.position, {"ShipPortal"})

(***************************************************************************)
(* Pathfinder::simulate_step applied tick after tick on courses with a     *)
(* rotated and a scaled object.                                            *)
(***************************************************************************)
\* The courses: a ship portal (id 13, 34 x 86) lying on its side on the
\* floor, rotated by 90 degrees about (60, 15), and one scaled to seven
\* times its height; short hops.
SweepLevels ==
    { <<GameObject(13, "ShipPortal", "Rectangle", 60 * Unit, 15 * Unit,
                   34 * Unit, 86 * Unit, 90)>>,
      <<TallShipPortal(20 * Unit)>> }

SweepInit ==
    /\ \E objects \in SweepLevels :
           pathfinder = with_config(objects, [physics |-> HopPhysics, search |-> DefaultSearch])
    /\ start_pos = Vec2(0, 15 * Unit)
    /\ goal_x = PlayGoal
    /\ session = start_search(pathfinder, start_pos, goal_x)
    /\ pc = "caller"
    /\ hist = [ship_ticks |-> 0]
    /\ VizIdle
    /\ call = "start_search"
    /\ args = <<>>
    /\ ret = [physics |-> StartState(start_pos), state |-> StartState(start_pos)]

SweepSpec == SweepInit /\ [][PlayNext]_vars

\* The indices the landing scan and the portal scan visit for a player at
\* position.
SweepRange(position) ==
    ScanRange(pathfinder.objects,
              partition_point(pathfinder.objects,
                              position.x - pathfinder.config.physics.player_width \div 2
                                - pathfinder.max_obj_width),
              position.x + pathfinder.config.physics.player_width \div 2)

\* C38: on every tick the range the landing scan and the portal scan visit
\* contains every object whose box overlaps the player's, rotated and
\* scaled objects included, and the state after the portal scan is the one
\* a scan over all objects gives.
C38_SweepIsFullScan ==
    call = "simulate_step"
    => /\ Overlapped(ret.physics.position) \subseteq SweepRange(ret.physics.position)
       /\ Overlapped(ret.state.position) \subseteq SweepRange(ret.state.position)
       /\ \A landed \in {Landed(pathfinder, args[1], ret.physics)} :
             ret.state = PortalSweep(pathfinder,
                                     PlayerOBB(landed.position, pathfinder.config.physics),
                                     DOMAIN pathfinder.objects, 1, landed)

(***************************************************************************)
(* collides_info applied on its own to players near wide and scaled        *)
(* hazards.                                                                *)
(***************************************************************************)
\* The hazards: a 30 x 30 spike; a spike scaled to 20 times its width,
\* reaching from x = 50 to x = 650; one scaled to 20 times its height and
\* lying on its side, reaching from x = 0 to x = 600; a saw of radius 16;
\* and one scaled to twice that, of radius 32 about (130, 45).
HazardObjects ==
    { GameObject(8, "Hazard", "Rectangle", 100 * Unit, 15 * Unit, 30 * Unit, 30 * Unit, 0),
      GameObject(8, "Hazard", "Rectangle", 350 * Unit, 15 * Unit, 600 * Unit, 30 * Unit, 0),
      GameObject(8, "Hazard", "Rectangle", 300 * Unit, 15 * Unit, 30 * Unit, 600 * Unit, 90),
      GameObject(88, "Sawblade", "Circle", 144 * Unit, 128 * Unit, 32 * Unit, 32 * Unit, 0),
      GameObject(88, "Sawblade", "Circle", 130 * Unit, 45 * Unit, 64 * Unit, 64 * Unit, 0) }

\* The places the player is tested at.
HazardCentres ==
    { Vec2(x * Unit, y * Unit) : x \in {0, 60, 85, 99, 100, 101, 150, 300, 700},
                                 y \in {15, 45, 100, 300} }

HazardInit ==
    /\ \E a \in HazardObjects, b \in HazardObjects :
           pathfinder = with_config(IF a = b THEN <<a>> ELSE <<a, b>>, DefaultConfig)
    /\ start_pos = Vec2(0, 15 * Unit)
    /\ goal_x = 0
    /\ session = start_search(pathfinder, start_pos, goal_x)
    /\ pc = "caller"
    /\ hist = [pops |-> <<>>, expanded |-> <<>>, progress_at |-> 0]
    /\ VizIdle
    /\ call = "none"
    /\ ret = {}
    /\ args = <<>>

\* collision::collides_info(&state, &objects, &grid, &physics): ret is the
\* set of the values it may return.
HazardTest ==
    /\ \E position \in HazardCentres :
           /\ args' = <<[StartState(position) EXCEPT !.on_ground = FALSE]>>
           /\ ret' = collides_info([StartState(position) EXCEPT !.on_ground = FALSE],
                                   pathfinder.objects, pathfinder.grid,
                                   pathfinder.config.physics)
    /\ call' = "collides_info"
    /\ UNCHANGED rest

HazardNext == HazardTest

HazardSpec == HazardInit /\ [][HazardNext]_vars

\* Whether obj is a Hazard or a Sawblade whose hitbox overlaps the player's
\* at state: the circle of radius width / 2 or the rotated box.
Touches(state, obj, params) ==
    /\ obj.object_type \in {"Hazard", "Sawblade"}
    /\ IF obj.hitbox_shape = "Circle"
       THEN circle_rect_intersects(obj.position, obj.width \div 2, state.position,
                                   params.player_width, params.player_height)
       ELSE obj.obb /= None /\ overlaps(PlayerOBB(state.position, params), obj.obb[1])

\* C39: collides_info returns Some whenever the hitbox of a Hazard or a
\* Sawblade among all the objects overlaps the player's hitbox, and None
\* when none does.
C39_NoHazardMissed ==
    call = "collides_info"
    => ( (\E i \in DOMAIN pathfinder.objects :
              Touches(args[1], pathfinder.objects[i], pathfinder.config.physics))
         <=> None \notin ret )

====
